---- MODULE Spec2Model ----
(***************************************************************************)
(* Model of the live-network transaction orchestration of                  *)
(* execution_testing's `execute` plugins:                                  *)
(*   - the Worker Key Coordinator (plugins/execute/sender.py), one         *)
(*     process per parallel worker, synchronised through two file-backed   *)
(*     records and their file locks;                                       *)
(*   - the per-test Ledger (plugins/execute/pre_alloc.py, class Alloc and  *)
(*     fixture `pre`) as driven by plugins/execute/execute.py.             *)
(* Addresses are identified with the private key they derive from.         *)
(***************************************************************************)
EXTENDS Integers, Sequences, FiniteSets, TLC

\* ------------------------------------------------------------- bounds
MaxWorkers == 2
\* EOAs one test funds
MaxEoas == 2
\* transactions one test queues
MaxPending == 3
\* calls of Collector.collect, and of GasInfoAccumulator.add, in one session
MaxCalls == 3

\* ------------------------------------------------- program constants
\* Python's None for an optional integer.
None == 0 - 1
\* default of --sender-fund-refund-gas-limit
sender_fund_refund_gas_limit == 21000
\* fund_eoa(delegation="Self")
Self == 0 - 2
\* gas limit of a transaction that names none
default_gas_limit == 21000
\* gas limit of a funding transaction that carries an authorization tuple
auth_gas_limit == 100000
\* refund_gas_limit of the cleanup phase of `pre`
refund_gas_limit == 21000
\* limits of deploy_contract
MAX_BYTECODE_SIZE == 24576
MAX_INITCODE_SIZE == MAX_BYTECODE_SIZE * 2
\* deploy_gas_limit: its base, per storage slot, per code byte, and its cap
deploy_base_gas == 21000 + 32000
deploy_slot_gas == 22600
deploy_byte_gas == 200
deploy_gas_cap == 30000000

\* ------------------------------------------------------ input domains
Workers == 1 .. MaxWorkers
\* --rpc-seed-key
SeedKeys == {1}
\* --eoa-start: first private key of the EOA iterator
EoaStarts == {2, 3}
\* every key the run can touch
EoaAddrs == 1 .. (3 + MaxWorkers + MaxEoas)
\* the addresses of the contracts one test creates
ContractAddrs ==
    (3 + MaxWorkers + MaxEoas + 1) .. (3 + MaxWorkers + MaxEoas + MaxPending)
\* the registry of address stubs: a contract that is on the chain, and an
\* address that holds no code
StubAddr == 3 + MaxWorkers + MaxEoas + MaxPending + 1
EmptyStubAddr == 3 + MaxWorkers + MaxEoas + MaxPending + 2
address_stubs ==
    [label \in {"known", "empty"} |->
        IF label = "known" THEN StubAddr ELSE EmptyStubAddr]
Addrs == EoaAddrs \cup ContractAddrs \cup {StubAddr, EmptyStubAddr}
\* --seed-account-sweep-amount (None: entire balance)
SweepAmounts == {None, 100000}
\* --sender-funding-txs-gas-price (asserted > 0)
GasPrices == {1}
\* balance of the seed key when the session starts
SeedBalances == {42000, 200000}
\* transaction count of the seed key when the session starts
SeedNonces == {9}
\* balance already held by the keys the EOA iterator derives
LeftoverBalances == {0, 50000}
\* what the tests of one worker spend from its key
TestSpends == {37000}
\* max_fee_per_gas of a test
Fees == {1000}
\* deploy_contract(code=...): the code, identified with its length
Codes == {2}
\* deploy_contract(storage=...): number of pre-set slots
Slots == {0}
\* deploy_contract(balance=...)
DeployBalances == {5}
\* deploy_contract(nonce=...)
DeployNonces == {1}
\* deploy_contract(evm_code_type=...)
EvmCodeTypes == {"LEGACY"}
\* fund_address(amount=...)
AddressAmounts == {7}
\* fund_eoa(amount, storage, delegation), the calls a test makes: the amount
\* is nothing or concrete, or deferred (None) for an EOA delegated to
\* itself, the storage none or a number of slots
FundEoaArgs ==
    {<<0, None, None>>, <<21000001, None, None>>, <<None, None, Self>>,
     <<0, 1, None>>}
\* the calls of a test that only builds its Ledger: code at and above the
\* size limit, storage that fills the initcode up to and above its limit,
\* both initcode encodings, a nonce below one, every stub label, and
\* fund_eoa with and without storage and delegation
AllocCodes == {MAX_BYTECODE_SIZE, MAX_BYTECODE_SIZE + 1}
AllocSlots == {3, 4913, 4914}
AllocNonces == {0, 1}
AllocEvmCodeTypes == {"LEGACY", "EOF_V1"}
Stubs == {"known", "empty", "missing"}
AllocFundEoaArgs ==
    {<<None, None, None>>, <<None, None, Self>>, <<0, 1, None>>}
\* fund_eoa(amount) with neither storage nor delegation: deferred, nothing,
\* or an amount that pays for a refund
PlainFundEoaArgs ==
    {<<None, None, None>>, <<0, None, None>>, <<21000001, None, None>>}
\* max_fee_per_gas of such a test
AllocFees == {1}
\* what the chain holds at the address of the stub "known"
StubCodes == {3}
StubBalances == {9}
StubNonces == {0, 1}
\* an address no Ledger operation created
ExternalAddr == 3 + MaxWorkers + MaxEoas
\* balance a sender needs for the transactions of the test, less its key
RequiredBalances == {100}
\* what a funded EOA spends while the test executes
EoaSpends == {0, 1}
\* balance of the spending key when a test starts
SenderBalances == {1000000000}

\* --chain-id and --rpc-chain-id: not given, or an integer
ChainIds == {None} \cup (0 .. 5)
\* node ids of the tests of a session
TestIds == {"test_a", "test_b"}
\* the execute objects a test hands to the collector
ExecuteFormats == {"execute_1", "execute_2"}
\* gas consumption and minimum balance of a test
GasInfos == {<<21000, 100>>, <<42000, 300>>}

VARIABLES
    option,          \* the command line, shared by every worker process
    pc,              \* position of each worker process in its session fixtures
    amount_file,     \* session_temp_folder / "worker_key_funding_amount"
    amount_lock,     \* holder of worker_key_funding_amount.lock (0: free)
    nonce_file,      \* session_temp_folder / "seed_sender_nonce"
    nonce_lock,      \* holder of seed_sender_nonce.lock (0: free)
    seed_nonce,      \* seed_key.nonce of each process
    funding_amount,  \* value of the worker_key_funding_amount fixture
    eoa_next,        \* next key of each process's eoa_iterator
    worker_key,      \* key allocated to each worker
    fund_tx,         \* the funding transaction each worker built
    remaining,       \* remaining_balance read at session end
    chain_balance,   \* node: balance of every address
    chain_nonce,     \* node: transaction count of every address
    mempool,         \* node: every transaction it accepted, in order
    chain_code,      \* node: code of every address (0: none)
    seed_start_balance, \* balance of the seed key when the session started
    amount_writes,   \* number of writes of the worker_key_funding_amount file
    amount_cached,   \* whether a worker took the "Using cached ..." return
    phase,           \* where the running test and its `pre` fixture are
    test_outcome,    \* verdict of the test: "running", "passed", "failed"
    pending_txs,     \* Alloc._pending_txs
    funded_eoa,      \* Alloc._funded_eoa
    deployed_contracts, \* Alloc._deployed_contracts
    alloc,           \* Alloc root: expected account of every address
    sender_nonce,    \* nonce of the Ledger's sender key (local)
    eoa_nonce,       \* nonce of every EOA object (local)
    minimum_balance, \* result of minimum_balance_for_pending_transactions
    gas_consumption, \* its second result
    sender_balances, \* required_balances of the test's senders
    last_call,       \* the latest call of a method of Alloc that builds the
                     \* Ledger: its name, arguments and RPC requests
    td_idx,          \* cleanup: position in _funded_eoa
    td_remaining,    \* cleanup: remaining_balance of the current EOA
    refund_txs,      \* cleanup: refund transactions that were sent
    skipped_refunds, \* cleanup: counter
    error_refunds,   \* cleanup: counter
    td_log,          \* cleanup: what happened for each EOA, in order
    rec_option,      \* recover: --start-eoa-index, --max-index, --destination
    rec_gas_price,   \* recover: the gas price of the transfers
    indexes_keys,    \* recover: the parametrized cases (index, key)
    rec_phase,       \* recover: where the recovery session is
    rec_idx,         \* recover: number of cases that ran in this session
    rec_pass,        \* recover: number of the recovery session (1, 2)
    rec_log,         \* recover: what happened for each case, in order
    collected_tests, \* Collector.collected_tests
    collect_calls,   \* the calls of Collector.collect, in order
    test_gas_info,   \* GasInfoAccumulator.test_gas_info
    add_calls,       \* the calls of GasInfoAccumulator.add, in order
    flag_option,     \* execute_flags: --help, --chain-id, --rpc-chain-id
    configure_outcome, \* execute_flags: how pytest_configure ended
    chain_id_default \* ChainConfigDefaults.chain_id

accVars == <<pending_txs, funded_eoa, deployed_contracts, alloc,
            sender_nonce, eoa_nonce>>
calcVars == <<minimum_balance, gas_consumption, sender_balances>>
tdVars == <<td_idx, td_remaining, refund_txs, skipped_refunds, error_refunds,
            td_log>>
ledgerVars == <<phase, test_outcome, accVars, calcVars, tdVars, last_call>>

coordVars == <<amount_file, amount_lock, nonce_file, nonce_lock, seed_nonce,
               funding_amount, worker_key, fund_tx, remaining,
               seed_start_balance, amount_writes, amount_cached>>

chainVars == <<chain_balance, chain_nonce, mempool, chain_code>>

recVars == <<rec_option, rec_gas_price, indexes_keys, rec_phase, rec_idx,
            rec_pass, rec_log>>

\* what the commands next to `execute remote` keep
aggVars == <<collected_tests, collect_calls, test_gas_info, add_calls>>

flagVars == <<flag_option, configure_outcome, chain_id_default>>

toolVars == <<recVars, aggVars, flagVars>>

vars == <<option, pc, eoa_next, coordVars, chainVars, chain_code,
                   ledgerVars, toolVars>>

\* ------------------------------------------------------------ helpers
\* str(n) of a non-negative integer: its decimal digits
RECURSIVE str(_)
str(n) == IF n < 10 THEN <<n>> ELSE Append(str(n \div 10), n % 10)

\* int(text) of a string of decimal digits
RECURSIVE int(_)
int(s) ==
    IF Len(s) = 0 THEN 0
    ELSE 10 * int(SubSeq(s, 1, Len(s) - 1)) + s[Len(s)]

\* Path.exists(): a file that was never written has no content
exists(file) == file # <<>>

NoTx == [kind |-> "none"]

Tx(kind, from, to, nonce, value, gas_limit, gas_price, by) ==
    [kind |-> kind, sender |-> from, to |-> to, nonce |-> nonce,
     value |-> value, gas_limit |-> gas_limit, gas_price |-> gas_price,
     by |-> by, auth |-> 0, data |-> 0, mined |-> FALSE]

seed_key == option.rpc_seed_key

Active(w) == w \in 1 .. option.worker_count

\* FileLock(...).__enter__ returns only while no other process holds the lock
LockFreeBroken(lock) == TRUE
LockFree(lock) == lock = 0

\* eth_rpc.get_balance / get_transaction_count: the node's latest state
get_balance(a) == chain_balance[a]
get_transaction_count(a) == chain_nonce[a]

NoAccount == [nonce |-> None, balance |-> None, code |-> None]

\* Account(nonce=..., balance=..., code=...)
Account(nonce, balance, code) ==
    [nonce |-> nonce, balance |-> balance, code |-> code]

Call(op, args, rpc) == [op |-> op, args |-> args, rpc |-> rpc]
NoCall == Call("none", <<>>, <<>>)

\* no test is running: the state of a fresh Alloc
FreshLedger ==
    /\ test_outcome = "running"
    /\ pending_txs = <<>>
    /\ funded_eoa = <<>>
    /\ deployed_contracts = <<>>
    /\ alloc = [a \in Addrs |-> NoAccount]
    /\ sender_nonce = 0
    /\ eoa_nonce = [a \in Addrs |-> 0]
    /\ minimum_balance = None
    /\ gas_consumption = None
    /\ sender_balances = <<>>
    /\ last_call = NoCall
    /\ td_idx = 0
    /\ td_remaining = None
    /\ refund_txs = <<>>
    /\ skipped_refunds = 0
    /\ error_refunds = 0
    /\ td_log = <<>>

LedgerIdle ==
    /\ phase = "idle"
    /\ FreshLedger

\* no recovery session runs
RecoverIdle ==
    /\ rec_option = [start_eoa_index |-> None, max_index |-> 0,
                     destination |-> None]
    /\ rec_gas_price = None
    /\ indexes_keys = <<>>
    /\ rec_phase = "idle"
    /\ rec_idx = 0
    /\ rec_pass = 0
    /\ rec_log = <<>>

\* the session fixtures `collector` and `gas_limit_accumulator` as created
NoResult == "none"
NoGasInfo == [gas_limit |-> None, minimum_balance |-> None]

AggregatorFresh ==
    /\ collected_tests = [t \in TestIds |-> NoResult]
    /\ collect_calls = <<>>
    /\ test_gas_info = [t \in TestIds |-> NoGasInfo]
    /\ add_calls = <<>>

\* ChainConfigDefaults.chain_id before a plugin sets it
DefaultChainId == 1

\* pytest_configure of execute_flags has passed
FlagsIdle ==
    /\ flag_option = [help |-> FALSE, chain_id |-> DefaultChainId,
                      rpc_chain_id |-> None]
    /\ configure_outcome = "configured"
    /\ chain_id_default = DefaultChainId

ToolsIdle == RecoverIdle /\ AggregatorFresh /\ FlagsIdle

\* ---------------------------------------------------------------- Init
Init ==
    /\ option \in [worker_count : 1 .. MaxWorkers,
                   dry_run : BOOLEAN,
                   seed_account_sweep_amount : SweepAmounts,
                   sender_funding_transactions_gas_price : GasPrices,
                   eoa_iterator_start : EoaStarts,
                   rpc_seed_key : SeedKeys,
                   skip_cleanup : {FALSE},
                   max_fee_per_gas : {1000},
                   max_priority_fee_per_gas : {1}]
    /\ pc = [w \in Workers |-> "start"]
    /\ amount_file = <<>>
    /\ amount_lock = 0
    /\ nonce_file = <<>>
    /\ nonce_lock = 0
    /\ seed_nonce = [w \in Workers |-> None]
    /\ funding_amount = [w \in Workers |-> None]
    /\ eoa_next = [w \in Workers |-> option.eoa_iterator_start]
    /\ worker_key = [w \in Workers |-> None]
    /\ fund_tx = [w \in Workers |-> NoTx]
    /\ remaining = [w \in Workers |-> None]
    /\ \E sb \in SeedBalances, lb \in LeftoverBalances :
          /\ chain_balance =
                [a \in Addrs |-> IF a = option.rpc_seed_key THEN sb ELSE lb]
          /\ seed_start_balance = sb
    /\ \E sn \in SeedNonces :
          chain_nonce =
              [a \in Addrs |-> IF a = option.rpc_seed_key THEN sn ELSE 0]
    /\ mempool = <<>>
    /\ chain_code = [a \in Addrs |-> 0]
    /\ amount_writes = 0
    /\ amount_cached = [w \in Workers |-> FALSE]
    /\ LedgerIdle
    /\ ToolsIdle

\* ------------------------------------------- worker_key_funding_amount
\* if worker_count <= 1: the test both session fixtures start with
SingleWorkerNever == FALSE
SingleWorker == option.worker_count <= 1

\* remote_seed_sender.seed_key, then the worker_count test of both fixtures
SeedKeyFixture(w) ==
    /\ Active(w)
    /\ pc[w] = "start"
    /\ seed_nonce' = [seed_nonce EXCEPT ![w] = get_transaction_count(seed_key)]
    /\ pc' = [pc EXCEPT ![w] =
                IF SingleWorker THEN "single" ELSE "amount_lock"]
    /\ UNCHANGED <<option, toolVars, amount_file, amount_lock, nonce_file, nonce_lock,
                   funding_amount, eoa_next, worker_key, fund_tx, remaining,
                   chain_balance, chain_nonce, mempool, seed_start_balance,
                   amount_writes, amount_cached, chain_code,
                   ledgerVars>>

\* with FileLock(base_lock_file):
FundingAmountAcquire(w) ==
    /\ Active(w)
    /\ pc[w] = "amount_lock"
    /\ LockFree(amount_lock)
    /\ amount_lock' = w
    /\ pc' = [pc EXCEPT ![w] = "amount_check"]
    /\ UNCHANGED <<option, toolVars, amount_file, nonce_file, nonce_lock, seed_nonce,
                   funding_amount, eoa_next, worker_key, fund_tx, remaining,
                   chain_balance, chain_nonce, mempool, seed_start_balance,
                   amount_writes, amount_cached, chain_code,
                   ledgerVars>>

\* if base_file.exists(): some other worker already did this for us
HasCachedAmountNever == FALSE
HasCachedAmount == exists(amount_file)

\* the cached return of worker_key_funding_amount
FundingAmountCheck(w) ==
    /\ Active(w)
    /\ pc[w] = "amount_check"
    /\ IF HasCachedAmount
       THEN /\ funding_amount' =
                   [funding_amount EXCEPT ![w] = int(amount_file)]
            /\ amount_cached' = [amount_cached EXCEPT ![w] = TRUE]
            /\ amount_lock' = 0
            /\ pc' = [pc EXCEPT ![w] = "alloc_key"]
       ELSE /\ pc' = [pc EXCEPT ![w] = "amount_compute"]
            /\ UNCHANGED <<funding_amount, amount_lock, amount_cached>>
    /\ UNCHANGED <<option, toolVars, amount_file, nonce_file, nonce_lock, seed_nonce,
                   eoa_next, worker_key, fund_tx, remaining, chain_balance,
                   chain_nonce, mempool, seed_start_balance, amount_writes, chain_code,
                   ledgerVars>>

\* the sweep amount when one is given, otherwise the live balance
available_amount_live == get_balance(seed_key)
available_amount ==
    IF option.seed_account_sweep_amount # None
    THEN option.seed_account_sweep_amount
    ELSE get_balance(seed_key)

funding_tx_cost ==
    sender_fund_refund_gas_limit * option.sender_funding_transactions_gas_price

ComputeFundingAmount ==
    (available_amount \div option.worker_count) - funding_tx_cost

\* if worker_key_funding_amount <= 0: raise AssertionError
AmountTooLowStrict(amount) == amount < 0
AmountTooLow(amount) == amount <= 0

\* the computation, the assertion and base_file.write_text
FundingAmountCompute(w) ==
    /\ Active(w)
    /\ pc[w] = "amount_compute"
    /\ IF AmountTooLow(ComputeFundingAmount)
       THEN \* AssertionError: the session of this worker aborts
            /\ pc' = [pc EXCEPT ![w] = "failed"]
            /\ UNCHANGED <<amount_file, funding_amount, amount_writes>>
       ELSE /\ amount_file' = str(ComputeFundingAmount)
            /\ amount_writes' = amount_writes + 1
            /\ funding_amount' =
                   [funding_amount EXCEPT ![w] = ComputeFundingAmount]
            /\ pc' = [pc EXCEPT ![w] = "alloc_key"]
    /\ amount_lock' = 0
    /\ UNCHANGED <<option, toolVars, nonce_file, nonce_lock, seed_nonce, eoa_next,
                   worker_key, fund_tx, remaining, chain_balance, chain_nonce,
                   mempool, seed_start_balance, amount_cached, chain_code,
                   ledgerVars>>

\* ---------------------------------------------------- session_worker_key
\* worker_key = next(eoa_iterator)
WorkerKeyAlloc(w) ==
    /\ Active(w)
    /\ pc[w] = "alloc_key"
    /\ worker_key' = [worker_key EXCEPT ![w] = eoa_next[w]]
    /\ eoa_next' = [eoa_next EXCEPT ![w] = eoa_next[w] + 1]
    /\ pc' = [pc EXCEPT ![w] = "nonce_lock"]
    /\ UNCHANGED <<option, toolVars, amount_file, amount_lock, nonce_file, nonce_lock,
                   seed_nonce, funding_amount, fund_tx, remaining,
                   chain_balance, chain_nonce, mempool, seed_start_balance,
                   amount_writes, amount_cached, chain_code,
                   ledgerVars>>

\* with FileLock(seed_sender_lock_file):
SeedNonceAcquire(w) ==
    /\ Active(w)
    /\ pc[w] = "nonce_lock"
    /\ LockFree(nonce_lock)
    /\ nonce_lock' = w
    /\ pc' = [pc EXCEPT ![w] = "nonce_load"]
    /\ UNCHANGED <<option, toolVars, amount_file, amount_lock, nonce_file, seed_nonce,
                   funding_amount, eoa_next, worker_key, fund_tx, remaining,
                   chain_balance, chain_nonce, mempool, seed_start_balance,
                   amount_writes, amount_cached, chain_code,
                   ledgerVars>>

\* Transaction(sender=eoa) takes the nonce of its sender and advances it
SenderNonce(n) == n
NextNonce(n) == n + 1

\* seed_key.nonce after the record was looked up: its content when it
\* exists, otherwise the nonce this process read from the node
LoadedNonceStale(w) == seed_nonce[w]
LoadedNonce(w) ==
    IF exists(nonce_file) THEN int(nonce_file) ELSE seed_nonce[w]

\* load the nonce record when it exists, then build the funding transaction
SeedNonceLoadBuild(w) ==
    /\ Active(w)
    /\ pc[w] = "nonce_load"
    /\ LET loaded == LoadedNonce(w)
       IN /\ fund_tx' = [fund_tx EXCEPT ![w] =
                 Tx("fund", seed_key, worker_key[w], SenderNonce(loaded),
                    funding_amount[w], sender_fund_refund_gas_limit,
                    option.sender_funding_transactions_gas_price, w)]
          /\ seed_nonce' = [seed_nonce EXCEPT ![w] = NextNonce(loaded)]
    /\ pc' = [pc EXCEPT ![w] = "fund_send"]
    /\ UNCHANGED <<option, toolVars, amount_file, amount_lock, nonce_file, nonce_lock,
                   funding_amount, eoa_next, worker_key, remaining,
                   chain_balance, chain_nonce, mempool, seed_start_balance,
                   amount_writes, amount_cached, chain_code,
                   ledgerVars>>

\* the nonce record when send_transaction raised: the write that follows
\* the call inside the with block is never reached
NonceFileAfterRaiseWritten(w) == str(seed_nonce[w])
NonceFileAfterRaise(w) == nonce_file

\* if not dry_run: eth_rpc.send_transaction(fund_tx)
FundTxSend(w) ==
    /\ Active(w)
    /\ pc[w] = "fund_send"
    /\ IF option.dry_run
       THEN /\ pc' = [pc EXCEPT ![w] = "nonce_store"]
            /\ UNCHANGED <<mempool, nonce_lock, nonce_file>>
       ELSE \/ /\ mempool' = Append(mempool, fund_tx[w])
               /\ pc' = [pc EXCEPT ![w] = "nonce_store"]
               /\ UNCHANGED <<nonce_lock, nonce_file>>
            \/ \* the RPC call raises: the lock is released on the way out
               /\ pc' = [pc EXCEPT ![w] = "failed"]
               /\ nonce_lock' = 0
               /\ nonce_file' = NonceFileAfterRaise(w)
               /\ UNCHANGED mempool
    /\ UNCHANGED <<option, toolVars, amount_file, amount_lock, seed_nonce,
                   funding_amount, eoa_next, worker_key, fund_tx, remaining,
                   chain_balance, chain_nonce, seed_start_balance,
                   amount_writes, amount_cached, chain_code,
                   ledgerVars>>

\* f.write(str(seed_key.nonce)), and the lock is released
SeedNonceStore(w) ==
    /\ Active(w)
    /\ pc[w] = "nonce_store"
    /\ nonce_file' = str(seed_nonce[w])
    /\ nonce_lock' = 0
    /\ pc' = [pc EXCEPT ![w] = "fund_wait"]
    /\ UNCHANGED <<option, toolVars, amount_file, amount_lock, seed_nonce,
                   funding_amount, eoa_next, worker_key, fund_tx, remaining,
                   chain_balance, chain_nonce, mempool, seed_start_balance,
                   amount_writes, amount_cached, chain_code,
                   ledgerVars>>

Included(tx) ==
    \E i \in 1 .. Len(mempool) :
        /\ mempool[i].mined
        /\ mempool[i].kind = tx.kind
        /\ mempool[i].sender = tx.sender
        /\ mempool[i].by = tx.by
        /\ mempool[i].nonce = tx.nonce

\* if not dry_run: the worker waits for its funding transaction
WaitsForInclusionNever == FALSE
WaitsForInclusion == ~option.dry_run

\* if not dry_run: eth_rpc.wait_for_transaction(fund_tx)
FundTxWait(w) ==
    /\ Active(w)
    /\ pc[w] = "fund_wait"
    /\ WaitsForInclusion => Included(fund_tx[w])
    /\ pc' = [pc EXCEPT ![w] = "tests"]
    /\ UNCHANGED <<option, toolVars, eoa_next, coordVars, chain_balance, chain_nonce, mempool, chain_code,
                   ledgerVars>>

\* yield worker_key: the tests of this worker spend from the key
RunTests(w) ==
    /\ Active(w)
    /\ pc[w] = "tests"
    /\ \E spent \in TestSpends :
          chain_balance' =
              IF option.dry_run \/ spent > chain_balance[worker_key[w]]
              THEN chain_balance
              ELSE [chain_balance EXCEPT ![worker_key[w]] = @ - spent]
    /\ pc' = [pc EXCEPT ![w] = "refund_query"]
    /\ UNCHANGED <<option, toolVars, eoa_next, coordVars, chain_nonce, mempool, chain_code,
                   ledgerVars>>

\* remaining_balance = eth_rpc.get_balance(worker_key)
RefundQuery(w) ==
    /\ Active(w)
    /\ pc[w] = "refund_query"
    /\ remaining' = [remaining EXCEPT ![w] = get_balance(worker_key[w])]
    /\ pc' = [pc EXCEPT ![w] = "refund_send"]
    /\ UNCHANGED <<option, toolVars, amount_file, amount_lock, nonce_file, nonce_lock,
                   seed_nonce, funding_amount, eoa_next, worker_key, fund_tx,
                   chain_balance, chain_nonce, mempool, seed_start_balance,
                   amount_writes, amount_cached, chain_code,
                   ledgerVars>>

\* double the gas price of the funding transactions
refund_gas_price_single == option.sender_funding_transactions_gas_price
refund_gas_price == option.sender_funding_transactions_gas_price * 2
refund_tx_cost == sender_fund_refund_gas_limit * refund_gas_price

\* Transaction.created_contract: the address a creation by `from` at
\* `nonce` deploys to
created_contract(from, nonce) == 3 + MaxWorkers + MaxEoas + 1 + nonce

\* who receives the value of a transaction
Recipient(tx) ==
    IF tx.to = None THEN created_contract(tx.sender, tx.nonce) ELSE tx.to

\* the node includes a transaction: nonce and funds permitting
Apply(tx, bal) ==
    [a \in Addrs |->
        LET out == IF a = tx.sender
                   THEN tx.value + tx.gas_limit * tx.gas_price ELSE 0
            inn == IF a = Recipient(tx) THEN tx.value ELSE 0
        IN bal[a] - out + inn]

\* a transaction advances the nonce of its sender, and each authorization
\* tuple it carries the nonce of the EOA that signed it
ApplyNonce(tx, nonces) ==
    [a \in Addrs |->
        nonces[a] + (IF a = tx.sender THEN 1 ELSE 0)
                  + (IF a = tx.to THEN tx.auth ELSE 0)]

CanInclude(tx) ==
    /\ tx.nonce = chain_nonce[tx.sender]
    /\ chain_balance[tx.sender] >= tx.value + tx.gas_limit * tx.gas_price

\* skip the refund, or eth_rpc.send_wait_transaction(refund_tx)
RefundSend(w) ==
    /\ Active(w)
    /\ pc[w] = "refund_send"
    /\ IF (remaining[w] - 1) < refund_tx_cost
       THEN UNCHANGED <<mempool, chain_balance, chain_nonce>>
       ELSE LET tx == Tx("refund", worker_key[w], seed_key,
                         get_transaction_count(worker_key[w]),
                         remaining[w] - refund_tx_cost - 1,
                         sender_fund_refund_gas_limit, refund_gas_price, w)
            IN /\ mempool' = Append(mempool, [tx EXCEPT !.mined = TRUE])
               /\ chain_balance' = Apply(tx, chain_balance)
               /\ chain_nonce' = [chain_nonce EXCEPT ![tx.sender] = @ + 1]
    /\ pc' = [pc EXCEPT ![w] = "done"]
    /\ UNCHANGED <<option, toolVars, eoa_next, coordVars, chain_code,
                   ledgerVars>>

\* worker_count <= 1: yield seed_key
SingleYield(w) ==
    /\ Active(w)
    /\ pc[w] = "single"
    /\ worker_key' = [worker_key EXCEPT ![w] = seed_key]
    /\ pc' = [pc EXCEPT ![w] = "single_tests"]
    /\ UNCHANGED <<option, toolVars, amount_file, amount_lock, nonce_file, nonce_lock,
                   seed_nonce, funding_amount, eoa_next, fund_tx, remaining,
                   chain_balance, chain_nonce, mempool, seed_start_balance,
                   amount_writes, amount_cached, chain_code,
                   ledgerVars>>

\* worker_count <= 1: the tests ran, the used balance is reported
SingleTeardown(w) ==
    /\ Active(w)
    /\ pc[w] = "single_tests"
    /\ \E spent \in TestSpends :
          chain_balance' =
              IF option.dry_run \/ spent > chain_balance[seed_key]
              THEN chain_balance
              ELSE [chain_balance EXCEPT ![seed_key] = @ - spent]
    /\ remaining' = [remaining EXCEPT ![w] = chain_balance'[seed_key]]
    /\ pc' = [pc EXCEPT ![w] = "done"]
    /\ UNCHANGED <<option, toolVars, amount_file, amount_lock, nonce_file, nonce_lock,
                   seed_nonce, funding_amount, eoa_next, worker_key, fund_tx,
                   chain_nonce, mempool, seed_start_balance, amount_writes, amount_cached, chain_code,
                   ledgerVars>>

\* the node includes a pending transaction in a block
MineTx ==
    \E i \in 1 .. Len(mempool) :
        /\ ~mempool[i].mined
        /\ CanInclude(mempool[i])
        /\ mempool' = [mempool EXCEPT ![i].mined = TRUE]
        /\ chain_nonce' = ApplyNonce(mempool[i], chain_nonce)
        /\ IF mempool[i].to = None
           THEN \* a creation: the code is deployed, or the creation fails
                \* (out of gas) and only the fee is paid
                \E deployed \in BOOLEAN :
                   /\ chain_code' =
                         [chain_code EXCEPT ![Recipient(mempool[i])] =
                             IF deployed THEN mempool[i].data ELSE 0]
                   /\ chain_balance' =
                         Apply(IF deployed THEN mempool[i]
                               ELSE [mempool[i] EXCEPT !.value = 0],
                               chain_balance)
           ELSE /\ chain_balance' = Apply(mempool[i], chain_balance)
                /\ UNCHANGED chain_code
        /\ UNCHANGED <<option, toolVars, pc, eoa_next, coordVars, ledgerVars>>

Next ==
    \/ \E w \in Workers : SeedKeyFixture(w)
    \/ \E w \in Workers : FundingAmountAcquire(w)
    \/ \E w \in Workers : FundingAmountCheck(w)
    \/ \E w \in Workers : FundingAmountCompute(w)
    \/ \E w \in Workers : WorkerKeyAlloc(w)
    \/ \E w \in Workers : SeedNonceAcquire(w)
    \/ \E w \in Workers : SeedNonceLoadBuild(w)
    \/ \E w \in Workers : FundTxSend(w)
    \/ \E w \in Workers : SeedNonceStore(w)
    \/ \E w \in Workers : FundTxWait(w)
    \/ \E w \in Workers : RunTests(w)
    \/ \E w \in Workers : RefundQuery(w)
    \/ \E w \in Workers : RefundSend(w)
    \/ \E w \in Workers : SingleYield(w)
    \/ \E w \in Workers : SingleTeardown(w)
    \/ MineTx

Spec == Init /\ [][Next]_vars

\* ------------------------------------------------- a session that is fair
\* every RPC call returns: send_transaction does not raise
RpcReturns ==
    \A w \in Workers : ~(pc[w] = "fund_send" /\ pc'[w] = "failed")

\* a step of the worker's process that waits for no lock
Proceed(w) ==
    \/ SeedKeyFixture(w)
    \/ FundingAmountCheck(w)
    \/ FundingAmountCompute(w)
    \/ WorkerKeyAlloc(w)
    \/ SeedNonceLoadBuild(w)
    \/ FundTxSend(w)
    \/ SeedNonceStore(w)
    \/ FundTxWait(w)
    \/ RunTests(w)
    \/ RefundQuery(w)
    \/ RefundSend(w)
    \/ SingleYield(w)
    \/ SingleTeardown(w)

FairNext == Next /\ RpcReturns

\* every process keeps running, the two file locks are fair, and the node
\* keeps including the transactions it can include
Fairness ==
    /\ \A w \in Workers :
          /\ WF_vars(Proceed(w) /\ RpcReturns)
          /\ SF_vars(FundingAmountAcquire(w))
          /\ SF_vars(SeedNonceAcquire(w))
    /\ WF_vars(MineTx)

\* the node accepts the funding transactions: the amount to share out is
\* given and is within the seed key's balance
SeedCanPay ==
    /\ option.seed_account_sweep_amount # None
    /\ option.seed_account_sweep_amount <= seed_start_balance

\* a session whose funding transactions the node accepts, with keys that
\* were never used
FairInit ==
    /\ Init
    /\ SeedCanPay
    /\ option.eoa_iterator_start = 2
    /\ \A a \in Addrs \ {seed_key} : chain_balance[a] = 0

FairSpec == FairInit /\ [][FairNext]_vars /\ Fairness

\* =====================================================================
\* The Ledger of one test: class Alloc and the fixture `pre`
\* =====================================================================
\* the Ledger's sender: the key session_worker_key yielded to this process
sender == worker_key[1]

Range(seq) == {seq[i] : i \in 1 .. Len(seq)}

Min(a, b) == IF a < b THEN a ELSE b

\* PendingTransaction(sender=self._sender, ...): value None is deferred
PendingTransaction(action, to, value, gas_limit, nonce, auth, data) ==
    [action |-> action, to |-> to, value |-> value, gas_limit |-> gas_limit,
     nonce |-> nonce, auth |-> auth, data |-> data, auth_nonce |-> None]

\* authorization_list=[AuthorizationTuple(nonce=eoa.nonce, signer=eoa)]:
\* the nonce of the one tuple of a transaction to `eoa`
Authorized(tx, nonce) == [tx EXCEPT !.auth_nonce = nonce]

\* length of the init payload that stores `slots` slots and returns `code`:
\* Initcode(deploy_code, initcode_prefix), or Container.Init(deploy_container,
\* initcode_prefix) for EOF
initcode_len(code, slots, evm_code_type) ==
    5 * slots + (IF evm_code_type = "EOF_V1" THEN 31 ELSE 11) + code

\* fork.memory_expansion_gas_calculator()(new_bytes=n)
memory_expansion_gas(n) ==
    LET words == (n + 31) \div 32
    IN 3 * words + (words * words) \div 512

\* fork.calldata_gas_calculator()(data=initcode)
calldata_gas(n) == 16 * n

\* deploy_gas_limit of deploy_contract: the memory expansion is added on the
\* legacy path only
deploy_gas_limit_single(code, slots, evm_code_type) ==
    Min(deploy_base_gas + slots * deploy_slot_gas + code * deploy_byte_gas
           + (IF evm_code_type = "EOF_V1" THEN 0
              ELSE memory_expansion_gas(
                       initcode_len(code, slots, evm_code_type)))
           + calldata_gas(initcode_len(code, slots, evm_code_type)),
        deploy_gas_cap)
deploy_gas_limit(code, slots, evm_code_type) ==
    Min((deploy_base_gas + slots * deploy_slot_gas + code * deploy_byte_gas
           + (IF evm_code_type = "EOF_V1" THEN 0
              ELSE memory_expansion_gas(
                       initcode_len(code, slots, evm_code_type)))
           + calldata_gas(initcode_len(code, slots, evm_code_type))) * 2,
        deploy_gas_cap)

\* the deployment transaction of deploy_contract
DeployTx(code, slots, balance, nonce, evm_code_type) ==
    PendingTransaction("deploy_contract", None, balance,
                       deploy_gas_limit(code, slots, evm_code_type), nonce, 0,
                       code)

\* assert len(code) <= MAX_BYTECODE_SIZE, on the code as code_pre_processor
\* returned it
CodeTooLargeNever(code) == FALSE
CodeTooLarge(code) == code > MAX_BYTECODE_SIZE

\* assert len(initcode) <= MAX_INITCODE_SIZE
InitcodeTooLargeNever(code, slots, evm_code_type) == FALSE
InitcodeTooLarge(code, slots, evm_code_type) ==
    initcode_len(code, slots, evm_code_type) > MAX_INITCODE_SIZE

\* the code fund_eoa deploys for `slots` storage slots: SSTOREs and a STOP
sstore_code(slots) == 5 * slots + 1

\* Alloc.deploy_contract without a stub; `code` is the code the size
\* assertion measures
DeployContract(code, slots, balance, nonce, evm_code_type) ==
    /\ phase = "accumulating"
    /\ Len(pending_txs) < MaxPending
    /\ last_call' = Call("deploy_contract",
                         <<code, slots, balance, nonce, evm_code_type>>, <<>>)
    /\ IF CodeTooLarge(code)
       THEN \* AssertionError: "code too large"
            /\ phase' = "test_ended"
            /\ test_outcome' = "code_too_large"
            /\ UNCHANGED accVars
       ELSE IF InitcodeTooLarge(code, slots, evm_code_type)
       THEN \* AssertionError: "initcode too large"
            /\ phase' = "test_ended"
            /\ test_outcome' = "initcode_too_large"
            /\ UNCHANGED accVars
       ELSE LET deploy_tx == DeployTx(code, slots, balance, sender_nonce,
                                      evm_code_type)
                contract_address == created_contract(sender, sender_nonce)
            IN /\ pending_txs' = Append(pending_txs, deploy_tx)
               /\ sender_nonce' = sender_nonce + 1
               /\ deployed_contracts' =
                     Append(deployed_contracts, <<contract_address, code>>)
               /\ IF nonce < 1
                  THEN \* "impossible to deploy contract with nonce lower
                       \* than one", after the transaction was queued
                       /\ phase' = "test_ended"
                       /\ test_outcome' = "nonce_below_one"
                       /\ UNCHANGED alloc
                  ELSE /\ alloc' = [alloc EXCEPT ![contract_address] =
                              Account(nonce, balance, code)]
                       /\ UNCHANGED <<phase, test_outcome>>
               /\ UNCHANGED <<funded_eoa, eoa_nonce>>
    /\ UNCHANGED <<option, toolVars, pc, eoa_next, coordVars, chainVars, calcVars,
                   tdVars>>

\* eth_rpc.get_code: the node's latest state (0: no code)
get_code(a) == chain_code[a]

\* the expected account of a stub: what the node reports for the address
StubAccountFresh(contract_address, code) == Account(1, 0, code)
StubAccount(contract_address, code) ==
    Account(get_transaction_count(contract_address),
            get_balance(contract_address), code)

\* Alloc.deploy_contract with a stub: the contract is looked up, not deployed
DeployStub(stub) ==
    /\ phase = "accumulating"
    /\ IF stub \notin DOMAIN address_stubs
       THEN \* ValueError: "Stub name ... not found in address stubs"
            /\ last_call' = Call("deploy_contract", <<stub>>, <<>>)
            /\ phase' = "test_ended"
            /\ test_outcome' = "stub_not_found"
            /\ UNCHANGED alloc
       ELSE LET contract_address == address_stubs[stub]
                code == get_code(contract_address)
            IN IF code = 0
               THEN \* ValueError: "Stub ... has no code"
                    /\ last_call' = Call("deploy_contract", <<stub>>,
                                         <<"get_code">>)
                    /\ phase' = "test_ended"
                    /\ test_outcome' = "stub_empty"
                    /\ UNCHANGED alloc
               ELSE /\ last_call' = Call("deploy_contract", <<stub>>,
                           <<"get_code", "get_balance",
                             "get_transaction_count">>)
                    /\ alloc' = [alloc EXCEPT ![contract_address] =
                           StubAccount(contract_address, code)]
                    /\ UNCHANGED <<phase, test_outcome>>
    /\ UNCHANGED <<option, toolVars, pc, eoa_next, coordVars, chainVars, pending_txs,
                   funded_eoa, deployed_contracts, sender_nonce, eoa_nonce,
                   calcVars, tdVars>>

\* eoa.nonce of the EOA next(self._eoa_iterator) yields
fresh_eoa_nonce == 0

\* the transactions fund_eoa queues for a new EOA, in the order it builds
\* and appends them; `n` is the nonce of the sender
FundEoaTxsSwapped(eoa, amount, storage, delegation, n) ==
    IF storage # None
    THEN <<DeployTx(sstore_code(storage), 0, 0, n, "LEGACY"),
           Authorized(PendingTransaction("fund_eoa", eoa, amount,
                                         auth_gas_limit, n + 2, 1, 0), 1),
           Authorized(PendingTransaction("eoa_storage_set", eoa, None,
                                         auth_gas_limit, n + 1, 1, 0), 0)>>
    ELSE <<Authorized(PendingTransaction("fund_eoa", eoa, amount,
                                         auth_gas_limit, n, 1, 0), 0)>>
FundEoaTxs(eoa, amount, storage, delegation, n) ==
    LET deploy == IF storage # None
                  THEN <<DeployTx(sstore_code(storage), 0, 0, n, "LEGACY"),
                         Authorized(
                            PendingTransaction("eoa_storage_set", eoa, None,
                                               auth_gas_limit, n + 1, 1, 0),
                            fresh_eoa_nonce)>>
                  ELSE <<>>
        k == n + Len(deploy)
        \* eoa.nonce = Number(eoa.nonce + 1) after the storage tuple
        eoa_nonce_now == fresh_eoa_nonce + (IF storage # None THEN 1 ELSE 0)
        fund == IF delegation # None \/ storage # None
                THEN <<Authorized(
                          PendingTransaction("fund_eoa", eoa, amount,
                                             auth_gas_limit, k, 1, 0),
                          eoa_nonce_now)>>
                ELSE IF amount = None \/ amount > 0
                     THEN <<PendingTransaction("fund_eoa", eoa, amount,
                                               default_gas_limit, k, 0, 0)>>
                     ELSE <<>>
    IN deploy \o fund

\* the keys next(self._eoa_iterator) handed to this Ledger
Allocated == option.eoa_iterator_start .. (eoa_next[1] - 1)

\* Alloc.fund_eoa: a fresh EOA and the transactions that set it up
FundEoa(amount, storage, delegation) ==
    /\ phase = "accumulating"
    /\ Cardinality(Allocated) < MaxEoas
    /\ last_call' = Call("fund_eoa", <<amount, storage, delegation>>, <<>>)
    /\ LET eoa == eoa_next[1]
           txs == FundEoaTxs(eoa, amount, storage, delegation, sender_nonce)
           signed == (IF storage # None THEN 1 ELSE 0)
                     + (IF delegation # None \/ storage # None THEN 1 ELSE 0)
       IN /\ Len(pending_txs) + Len(txs) <= MaxPending
          /\ eoa_next' = [eoa_next EXCEPT ![1] = eoa + 1]
          /\ pending_txs' = pending_txs \o txs
          /\ sender_nonce' = sender_nonce + Len(txs)
          /\ deployed_contracts' =
                IF storage # None
                THEN Append(deployed_contracts,
                            <<created_contract(sender, sender_nonce),
                              sstore_code(storage)>>)
                ELSE deployed_contracts
          /\ eoa_nonce' = [eoa_nonce EXCEPT ![eoa] = signed]
          /\ alloc' =
                [a \in Addrs |->
                    IF a = eoa
                    THEN Account(signed,
                                 IF amount = None THEN 0 ELSE amount, 0)
                    ELSE IF storage # None
                            /\ a = created_contract(sender, sender_nonce)
                         THEN Account(1, 0, sstore_code(storage))
                         ELSE alloc[a]]
          /\ funded_eoa' = Append(funded_eoa, eoa)
    /\ UNCHANGED <<option, toolVars, pc, coordVars, chainVars, phase, test_outcome,
                   calcVars, tdVars>>

\* the expected account of an address fund_address funds: the amount is
\* added to the balance of an account the Ledger already tracks
FundedAccountOverwritten(account, amount) == Account(0, amount, 0)
FundedAccount(account, amount) ==
    IF account # NoAccount
    THEN [account EXCEPT !.balance = @ + amount]
    ELSE Account(0, amount, 0)

\* Alloc.fund_address: one transfer, and the expected balance of the address
FundAddress(address, amount) ==
    /\ phase = "accumulating"
    /\ Len(pending_txs) < MaxPending
    /\ last_call' = Call("fund_address", <<address, amount>>, <<>>)
    /\ pending_txs' = Append(pending_txs,
          PendingTransaction("fund_address", address, amount,
                             default_gas_limit, sender_nonce, 0, 0))
    /\ sender_nonce' = sender_nonce + 1
    /\ alloc' = [alloc EXCEPT ![address] = FundedAccount(alloc[address], amount)]
    /\ UNCHANGED <<option, toolVars, pc, eoa_next, coordVars, chainVars, phase,
                   test_outcome, funded_eoa, deployed_contracts, eoa_nonce,
                   calcVars, tdVars>>

\* the list of funded EOAs after empty_account handed out `eoa`
FundedAfterEmptyListed(eoa) == Append(funded_eoa, eoa)
FundedAfterEmpty(eoa) == funded_eoa

\* Alloc.empty_account: a fresh EOA that no transaction touches
EmptyAccount ==
    /\ phase = "accumulating"
    /\ Cardinality(Allocated) < MaxEoas
    /\ last_call' = Call("empty_account", <<>>, <<>>)
    /\ LET eoa == eoa_next[1]
       IN /\ eoa_next' = [eoa_next EXCEPT ![1] = eoa + 1]
          /\ alloc' = [alloc EXCEPT ![eoa] = Account(0, 0, 0)]
          /\ funded_eoa' = FundedAfterEmpty(eoa)
    /\ UNCHANGED <<option, toolVars, pc, coordVars, chainVars, phase, test_outcome,
                   pending_txs, deployed_contracts, sender_nonce, eoa_nonce,
                   calcVars, tdVars>>

\* Transaction.signer_minimum_balance: the fee at the fee cap, and the value
signer_minimum_balance(tx) ==
    tx.gas_limit * option.max_fee_per_gas + tx.value

\* `gas_price` fixture: max_fee_per_gas + max_priority_fee_per_gas
gas_price == option.max_fee_per_gas + option.max_priority_fee_per_gas

RECURSIVE SumOver(_, _, _)
SumOver(F(_), seq, n) ==
    IF n = 0 THEN 0 ELSE F(seq[n]) + SumOver(F, seq, n - 1)

GasLimitOf(tx) == tx.gas_limit

\* first queued transaction whose deferred value cannot be resolved
\* (Len + 1 when every one can)
FirstUnresolved(balances) ==
    LET bad == {i \in 1 .. Len(pending_txs) :
                    /\ pending_txs[i].value = None
                    /\ pending_txs[i].to \notin DOMAIN balances}
    IN IF bad = {} THEN Len(pending_txs) + 1
       ELSE CHOOSE i \in bad : \A j \in bad : i <= j

\* the loop of minimum_balance_for_pending_transactions up to position n:
\* tx.value = HexNumber(sender_balances[tx.to])
ResolvedToZero(balances, n) ==
    [i \in 1 .. Len(pending_txs) |->
        IF i < n /\ pending_txs[i].value = None
        THEN [pending_txs[i] EXCEPT !.value = 0]
        ELSE pending_txs[i]]
ResolvedNothing(balances, n) == pending_txs
Resolved(balances, n) ==
    [i \in 1 .. Len(pending_txs) |->
        IF i < n /\ pending_txs[i].value = None
        THEN [pending_txs[i] EXCEPT !.value = balances[pending_txs[i].to]]
        ELSE pending_txs[i]]

\* return minimum_balance + gas_consumption * gas_price, gas_consumption
ReturnedMinimumNoGas(signer_total, gas_total) == signer_total
ReturnedMinimum(signer_total, gas_total) ==
    signer_total + gas_total * gas_price

\* the senders of the transactions of the test: every funded EOA, or every
\* one but the last
SenderSets ==
    {Range(funded_eoa),
     {funded_eoa[i] : i \in 1 .. Len(funded_eoa) - 1}}

\* the test builds its spec object: get_required_sender_balances, then
\* Alloc.minimum_balance_for_pending_transactions and GasInfoAccumulator.add
\* request.node.nodeid of the test the Ledger belongs to
nodeid == "test_a"

\* GasInfo(gas_limit=..., minimum_balance=...)
GasInfo(gas_limit, minimum) ==
    [gas_limit |-> gas_limit, minimum_balance |-> minimum]

\* GasInfoAccumulator.add: self.test_gas_info[test_name] = GasInfo(...)
AddedKeepsFirst(test_name, gas_limit, minimum) ==
    IF test_gas_info[test_name] # NoGasInfo THEN test_gas_info
    ELSE [test_gas_info EXCEPT
             ![test_name] = GasInfo(gas_limit, minimum)]
Added(test_name, gas_limit, minimum) ==
    [test_gas_info EXCEPT ![test_name] = GasInfo(gas_limit, minimum)]

\* Collector.collect: self.collected_tests[test_name] = execute_format
CollectedKeepsFirst(test_name, execute_format) ==
    IF collected_tests[test_name] # NoResult THEN collected_tests
    ELSE [collected_tests EXCEPT ![test_name] = execute_format]
Collected(test_name, execute_format) ==
    [collected_tests EXCEPT ![test_name] = execute_format]

MinimumBalance ==
    /\ phase = "accumulating"
    /\ last_call' = Call("minimum_balance_for_pending_transactions", <<>>,
                         <<>>)
    /\ \E senders \in SenderSets, required \in RequiredBalances :
          LET balances == [a \in senders |-> required + a]
              stop == FirstUnresolved(balances)
              txs == Resolved(balances, stop)
          IN /\ pending_txs' = txs
             /\ sender_balances' = balances
             /\ IF stop <= Len(pending_txs)
                THEN \* "Sender balance must be set before sending"
                     /\ phase' = "test_ended"
                     /\ test_outcome' = "unresolved"
                     /\ UNCHANGED <<minimum_balance, gas_consumption,
                                    test_gas_info, add_calls>>
                ELSE /\ gas_consumption' = SumOver(GasLimitOf, txs, Len(txs))
                     /\ minimum_balance' =
                            ReturnedMinimum(
                                SumOver(signer_minimum_balance, txs, Len(txs)),
                                gas_consumption')
                     \* gas_limit_accumulator.add(test_name=nodeid, ...)
                     /\ test_gas_info' = Added(nodeid, gas_consumption',
                                               minimum_balance')
                     /\ add_calls' = Append(add_calls,
                           <<nodeid, gas_consumption', minimum_balance'>>)
                     /\ phase' = "computed"
                     /\ UNCHANGED test_outcome
    /\ UNCHANGED <<option, flagVars, recVars, collected_tests, collect_calls, pc,
                   eoa_next, coordVars, chainVars, funded_eoa,
                   deployed_contracts, alloc, sender_nonce, eoa_nonce, tdVars>>

\* if dry_run: return
DryRunReturn ==
    /\ phase = "computed"
    /\ UNCHANGED last_call
    /\ option.dry_run
    /\ phase' = "test_ended"
    /\ test_outcome' = "passed"
    /\ UNCHANGED <<option, toolVars, pc, eoa_next, coordVars, chainVars, accVars,
                   calcVars, tdVars>>

\* tx.with_signature_and_sender()
Signed(tx) ==
    [Tx(tx.action, sender, tx.to, tx.nonce, tx.value, tx.gas_limit,
        option.max_fee_per_gas, 1) EXCEPT !.auth = tx.auth, !.data = tx.data]

\* Alloc.send_pending_transactions: every queued transaction, in order
SendPending ==
    /\ phase = "computed"
    /\ UNCHANGED last_call
    /\ ~option.dry_run
    /\ mempool' = mempool \o [i \in 1 .. Len(pending_txs) |->
                                 Signed(pending_txs[i])]
    /\ phase' = "sent"
    /\ UNCHANGED <<option, toolVars, pc, eoa_next, coordVars, chain_balance,
                   chain_nonce, chain_code, test_outcome, accVars, calcVars,
                   tdVars>>

AllIncluded(txs) == \A i \in 1 .. Len(txs) : Included(txs[i])

\* Alloc.wait_for_transactions: every value must be set, then the wait starts
WaitBegin ==
    /\ phase = "sent"
    /\ UNCHANGED last_call
    /\ IF \E i \in 1 .. Len(pending_txs) : pending_txs[i].value = None
       THEN /\ phase' = "test_ended"
            /\ test_outcome' = "failed"
       ELSE /\ phase' = "awaiting"
            /\ UNCHANGED test_outcome
    /\ UNCHANGED <<option, toolVars, pc, eoa_next, coordVars, chainVars, accVars,
                   calcVars, tdVars>>

\* eth_rpc.wait_for_transactions returns: every transaction is in a block
WaitPending ==
    /\ phase = "awaiting"
    /\ UNCHANGED last_call
    /\ \A i \in 1 .. Len(pending_txs) : Included(Signed(pending_txs[i]))
    /\ phase' = "included"
    /\ UNCHANGED <<option, toolVars, pc, eoa_next, coordVars, chainVars, test_outcome,
                   accVars, calcVars, tdVars>>

\* eth_rpc.get_code(deployed_contract) != expected_code
CodeMismatchIgnored == FALSE
CodeMismatch ==
    \E i \in 1 .. Len(deployed_contracts) :
        chain_code[deployed_contracts[i][1]] # deployed_contracts[i][2]

\* the check of the code of every deployed contract
CodeCheck ==
    /\ phase = "included"
    /\ UNCHANGED last_call
    /\ IF CodeMismatch
       THEN \* "Deployed test contract didn't match expected code"
            /\ phase' = "test_ended"
            /\ test_outcome' = "failed"
       ELSE /\ phase' = "confirmed"
            /\ UNCHANGED test_outcome
    /\ UNCHANGED <<option, toolVars, pc, eoa_next, coordVars, chainVars, accVars,
                   calcVars, tdVars>>

\* execute.execute: the funded EOAs send the transactions of the test
Execute ==
    /\ phase = "confirmed"
    /\ UNCHANGED last_call
    /\ \E spend \in EoaSpends :
          LET Spent(a) ==
                 IF a \in Range(funded_eoa) /\ spend <= chain_balance[a]
                 THEN spend ELSE 0
          IN /\ chain_balance' = [a \in Addrs |-> chain_balance[a] - Spent(a)]
             /\ chain_nonce' = [a \in Addrs |->
                    chain_nonce[a] + (IF Spent(a) > 0 THEN 1 ELSE 0)]
    /\ test_outcome' = "passed"
    /\ phase' = "test_ended"
    \* collector.collect(request.node.nodeid, execute)
    /\ collected_tests' = Collected(nodeid, "execute_1")
    /\ collect_calls' = Append(collect_calls, <<nodeid, "execute_1">>)
    /\ UNCHANGED <<option, flagVars, recVars, test_gas_info, add_calls, pc, eoa_next,
                   coordVars, mempool, chain_code, accVars, calcVars, tdVars>>

\* the test raises before it is over: an assertion of the test, an RPC
\* error while sending, waiting or executing
TestRaises ==
    /\ phase \in {"accumulating", "computed", "sent", "awaiting", "confirmed"}
    /\ UNCHANGED last_call
    /\ phase' = "test_ended"
    /\ test_outcome' = "failed"
    /\ UNCHANGED <<option, toolVars, pc, eoa_next, coordVars, chainVars, accVars,
                   calcVars, tdVars>>

\* ------------------------------------------------ cleanup phase of `pre`
tx_cost == refund_gas_limit * option.max_fee_per_gas

\* if remaining_balance < tx_cost: the refund is skipped
RefundSkippedNever(remaining_balance) == FALSE
RefundSkipped(remaining_balance) == remaining_balance < tx_cost

\* the loop moves to the next funded EOA, or ends
LoopNext == IF td_idx + 1 > Len(funded_eoa) THEN "td_wait" ELSE "td_query"

\* after the yield: dry_run and skip_cleanup return, otherwise the loop starts
TeardownBegin ==
    /\ phase = "test_ended"
    /\ UNCHANGED last_call
    /\ IF option.dry_run \/ option.skip_cleanup
       THEN /\ phase' = "closed"
            /\ UNCHANGED td_idx
       ELSE /\ td_idx' = 1
            /\ phase' = IF funded_eoa = <<>> THEN "td_wait" ELSE "td_query"
    /\ UNCHANGED <<option, toolVars, pc, eoa_next, coordVars, chainVars, test_outcome,
                   accVars, calcVars, td_remaining, refund_txs,
                   skipped_refunds, error_refunds, td_log>>

\* get_balance and get_transaction_count of the EOA, then the skip test
TeardownQuery ==
    /\ phase = "td_query"
    /\ UNCHANGED last_call
    /\ LET eoa == funded_eoa[td_idx]
           remaining_balance == get_balance(eoa)
       IN \/ /\ eoa_nonce' =
                   [eoa_nonce EXCEPT ![eoa] = get_transaction_count(eoa)]
             /\ td_remaining' = remaining_balance
             /\ IF RefundSkipped(remaining_balance)
                THEN /\ skipped_refunds' = skipped_refunds + 1
                     /\ td_log' = Append(td_log,
                           [idx |-> td_idx, eoa |-> eoa,
                            balance |-> remaining_balance,
                            outcome |-> "skipped", value |-> None])
                     /\ td_idx' = td_idx + 1
                     /\ phase' = LoopNext
                ELSE /\ phase' = "td_send"
                     /\ UNCHANGED <<skipped_refunds, td_log, td_idx>>
          \/ \* the RPC call raises, outside of any try
             /\ td_log' = Append(td_log,
                   [idx |-> td_idx, eoa |-> eoa, balance |-> None,
                    outcome |-> "raised", value |-> None])
             /\ phase' = "td_raised"
             /\ UNCHANGED <<eoa_nonce, td_remaining, skipped_refunds, td_idx>>
    /\ UNCHANGED <<option, toolVars, pc, eoa_next, coordVars, chainVars, test_outcome,
                   pending_txs, funded_eoa, deployed_contracts, alloc,
                   sender_nonce, calcVars, refund_txs, error_refunds>>

\* the refund transaction is built and sent inside try/except
TeardownSend ==
    /\ phase = "td_send"
    /\ UNCHANGED last_call
    /\ LET eoa == funded_eoa[td_idx]
           refund_value == td_remaining - tx_cost
           refund_tx == Tx("refund_from_eoa", eoa, sender,
                           SenderNonce(eoa_nonce[eoa]), refund_value,
                           refund_gas_limit, option.max_fee_per_gas, 1)
           entry(outcome) == [idx |-> td_idx, eoa |-> eoa,
                              balance |-> td_remaining, outcome |-> outcome,
                              value |-> refund_value]
       IN /\ eoa_nonce' = [eoa_nonce EXCEPT ![eoa] = NextNonce(@)]
          /\ \/ /\ mempool' = Append(mempool, refund_tx)
                /\ refund_txs' = Append(refund_txs, refund_tx)
                /\ td_log' = Append(td_log, entry("sent"))
                /\ UNCHANGED error_refunds
             \/ \* except Exception: logged, error_refunds += 1, continue
                /\ error_refunds' = error_refunds + 1
                /\ td_log' = Append(td_log, entry("error"))
                /\ UNCHANGED <<mempool, refund_txs>>
    /\ td_idx' = td_idx + 1
    /\ phase' = LoopNext
    /\ UNCHANGED <<option, toolVars, pc, eoa_next, coordVars, chain_balance,
                   chain_nonce, chain_code, test_outcome, pending_txs,
                   funded_eoa, deployed_contracts, alloc, sender_nonce,
                   calcVars, td_remaining, skipped_refunds>>

\* if refund_txs: eth_rpc.wait_for_transactions(refund_txs)
TeardownWait ==
    /\ phase = "td_wait"
    /\ UNCHANGED last_call
    /\ IF refund_txs = <<>>
       THEN phase' = "closed"
       ELSE \/ /\ AllIncluded(refund_txs)
               /\ phase' = "closed"
            \/ \* the RPC call raises, outside of any try
               phase' = "td_raised"
    /\ UNCHANGED <<option, toolVars, pc, eoa_next, coordVars, chainVars, test_outcome,
                   accVars, calcVars, tdVars>>

\* a test starts in a worker that runs on the seed key (worker_count = 1);
\* the chain holds `code`, `balance` and `nonce` at the address of the stub
\* "known", and the fee cap of the test is one of `fees`
LedgerStart(fees, code, balance, nonce) ==
    /\ option \in [worker_count : {1},
                   dry_run : BOOLEAN,
                   seed_account_sweep_amount : {None},
                   sender_funding_transactions_gas_price : GasPrices,
                   eoa_iterator_start : {2},
                   rpc_seed_key : SeedKeys,
                   skip_cleanup : BOOLEAN,
                   max_fee_per_gas : fees,
                   max_priority_fee_per_gas : {1}]
    /\ pc = [w \in Workers |-> IF w = 1 THEN "single_tests" ELSE "start"]
    /\ amount_file = <<>>
    /\ amount_lock = 0
    /\ nonce_file = <<>>
    /\ nonce_lock = 0
    /\ seed_nonce = [w \in Workers |-> IF w = 1 THEN 0 ELSE None]
    /\ funding_amount = [w \in Workers |-> None]
    /\ eoa_next = [w \in Workers |-> option.eoa_iterator_start]
    /\ worker_key = [w \in Workers |->
                        IF w = 1 THEN option.rpc_seed_key ELSE None]
    /\ fund_tx = [w \in Workers |-> NoTx]
    /\ remaining = [w \in Workers |-> None]
    /\ \E sb \in SenderBalances :
          /\ chain_balance =
                [a \in Addrs |-> IF a = option.rpc_seed_key THEN sb
                                 ELSE IF a = StubAddr THEN balance ELSE 0]
          /\ seed_start_balance = sb
    /\ chain_nonce = [a \in Addrs |-> IF a = StubAddr THEN nonce ELSE 0]
    /\ mempool = <<>>
    /\ chain_code = [a \in Addrs |-> IF a = StubAddr THEN code ELSE 0]
    /\ amount_writes = 0
    /\ amount_cached = [w \in Workers |-> FALSE]
    /\ phase = "accumulating"
    /\ FreshLedger
    /\ ToolsIdle

\* a test on a chain without the stub contract
LedgerInit == LedgerStart(Fees, 0, 0, 0)

\* the addresses a test passes to fund_address: the EOA it funded last, or
\* an address the Ledger does not know
FundableAddrs ==
    {funded_eoa[i] : i \in {Len(funded_eoa)} \ {0}} \cup {ExternalAddr}

LedgerNext ==
    \/ \E args \in FundEoaArgs : FundEoa(args[1], args[2], args[3])
    \/ \E code \in Codes, slots \in Slots, balance \in DeployBalances,
          nonce \in DeployNonces, evm_code_type \in EvmCodeTypes :
          DeployContract(code, slots, balance, nonce, evm_code_type)
    \/ \E address \in FundableAddrs, amount \in AddressAmounts :
          FundAddress(address, amount)
    \/ MinimumBalance
    \/ DryRunReturn
    \/ SendPending
    \/ WaitBegin
    \/ WaitPending
    \/ CodeCheck
    \/ Execute
    \/ TestRaises
    \/ TeardownBegin
    \/ TeardownQuery
    \/ TeardownSend
    \/ TeardownWait
    \/ MineTx

LedgerSpec == LedgerInit /\ [][LedgerNext]_vars

\* ------------------------------------------- a test that builds its Ledger
\* the chain holds the stub contract
AllocInit ==
    /\ \E code \in StubCodes, balance \in StubBalances, nonce \in StubNonces :
          LedgerStart(AllocFees, code, balance, nonce)
    /\ ~option.dry_run
    /\ ~option.skip_cleanup

\* the operations of the Ledger on every kind of argument, up to the moment
\* the queue is handed to the node
AllocNext ==
    \/ \E args \in AllocFundEoaArgs : FundEoa(args[1], args[2], args[3])
    \/ \E code \in AllocCodes, slots \in AllocSlots,
          balance \in DeployBalances, nonce \in AllocNonces,
          evm_code_type \in AllocEvmCodeTypes :
          DeployContract(code, slots, balance, nonce, evm_code_type)
    \/ \E stub \in Stubs : DeployStub(stub)
    \/ \E address \in FundableAddrs, amount \in AddressAmounts :
          FundAddress(address, amount)
    \/ MinimumBalance
    \/ SendPending

AllocSpec == AllocInit /\ [][AllocNext]_vars

\* -------------------------- a test that only allocates EOAs, to its end
EoaNext ==
    \/ \E args \in PlainFundEoaArgs : FundEoa(args[1], args[2], args[3])
    \/ EmptyAccount
    \/ MinimumBalance
    \/ DryRunReturn
    \/ SendPending
    \/ WaitBegin
    \/ WaitPending
    \/ CodeCheck
    \/ Execute
    \/ TestRaises
    \/ TeardownBegin
    \/ TeardownQuery
    \/ TeardownSend
    \/ TeardownWait
    \/ MineTx

EoaSpec == LedgerInit /\ [][EoaNext]_vars

\* =====================================================================
\* The Recovery Scanner: plugins/execute/recover.py and its test case
\* =====================================================================
\* --start-eoa-index
RecoverStarts == EoaStarts
\* --max-index
RecoverMaxIndexes == {1, MaxEoas}
\* what a scanned key holds when the recovery starts
RecoverBalances == {0, 21000, 50000}
\* gas limit of a recovery transfer
recover_gas_limit == 21000

\* the key the EOA iterator hands out as its n-th (from 0), started at start
RECURSIVE NthKey(_, _)
NthKey(start, n) == IF n = 0 THEN start ELSE NthKey(start, n - 1) + 1

\* indexes_keys of pytest_generate_tests
IndexesKeysShifted(start_eoa_index, max_index) ==
    [n \in 1 .. max_index |-> <<n - 1, start_eoa_index + n>>]
IndexesKeys(start_eoa_index, max_index) ==
    [n \in 1 .. max_index |-> <<n - 1, start_eoa_index + (n - 1)>>]

\* the keys a recovery session scans
ScannedKeys ==
    rec_option.start_eoa_index ..
        (rec_option.start_eoa_index + rec_option.max_index - 1)

\* no `execute remote` session runs: its fixtures are as at their start
SessionIdle ==
    /\ option = [worker_count |-> 1, dry_run |-> FALSE,
                 seed_account_sweep_amount |-> None,
                 sender_funding_transactions_gas_price |-> 1,
                 eoa_iterator_start |-> 2, rpc_seed_key |-> 1,
                 skip_cleanup |-> FALSE, max_fee_per_gas |-> 1000,
                 max_priority_fee_per_gas |-> 1]
    /\ pc = [w \in Workers |-> "start"]
    /\ amount_file = <<>>
    /\ amount_lock = 0
    /\ nonce_file = <<>>
    /\ nonce_lock = 0
    /\ seed_nonce = [w \in Workers |-> None]
    /\ funding_amount = [w \in Workers |-> None]
    /\ eoa_next = [w \in Workers |-> option.eoa_iterator_start]
    /\ worker_key = [w \in Workers |-> None]
    /\ fund_tx = [w \in Workers |-> NoTx]
    /\ remaining = [w \in Workers |-> None]
    /\ seed_start_balance = 0
    /\ chain_nonce = [a \in Addrs |-> 0]
    /\ mempool = <<>>
    /\ chain_code = [a \in Addrs |-> 0]
    /\ amount_writes = 0
    /\ amount_cached = [w \in Workers |-> FALSE]
    /\ LedgerIdle

\* a recovery session starts on a chain that no other session uses
RecoverInit ==
    /\ SessionIdle
    /\ AggregatorFresh
    /\ FlagsIdle
    /\ rec_option \in [start_eoa_index : RecoverStarts,
                       max_index : RecoverMaxIndexes,
                       destination : {ExternalAddr}]
    /\ rec_gas_price \in GasPrices
    /\ \E held \in [ScannedKeys -> RecoverBalances] :
          chain_balance = [a \in Addrs |->
                              IF a \in ScannedKeys THEN held[a] ELSE 0]
    /\ indexes_keys = <<>>
    /\ rec_phase = "collect"
    /\ rec_idx = 0
    /\ rec_pass = 1
    /\ rec_log = <<>>

\* pytest_generate_tests: one case per index
RecoverGenerate ==
    /\ rec_phase = "collect"
    /\ indexes_keys' = IndexesKeys(rec_option.start_eoa_index,
                                   rec_option.max_index)
    /\ rec_phase' = "run"
    /\ rec_idx' = 0
    /\ UNCHANGED <<option, flagVars, aggVars, pc, eoa_next, coordVars, chainVars, ledgerVars,
                   rec_option, rec_gas_price, rec_pass, rec_log>>

\* whether a case sends its transfer: the balance exceeds the cost
RecoverableAlways(remaining_balance, cost) == TRUE
Recoverable(remaining_balance, cost) == remaining_balance > cost

\* whether the outcome of a case ends the session: each case is a test of
\* its own, the cases after a failed one still run
AbortsOnError(outcome) == outcome = "error"
Aborts(outcome) == FALSE

\* one case of the recovery: the key's balance is read and, if it exceeds
\* the cost of a transfer, the remainder is sent to the destination and the
\* transfer awaited; an RPC error fails the case
RecoverCase ==
    /\ rec_phase = "run"
    /\ rec_idx < Len(indexes_keys)
    /\ LET index == indexes_keys[rec_idx + 1][1]
           eoa == indexes_keys[rec_idx + 1][2]
           remaining_balance == get_balance(eoa)
           cost == recover_gas_limit * rec_gas_price
           tx == Tx("recover", eoa, rec_option.destination,
                    get_transaction_count(eoa), remaining_balance - cost,
                    recover_gas_limit, rec_gas_price, rec_pass)
           entry(outcome) == [pass |-> rec_pass, index |-> index,
                              eoa |-> eoa, balance |-> remaining_balance,
                              outcome |-> outcome]
           done(outcome) ==
              /\ rec_log' = Append(rec_log, entry(outcome))
              /\ rec_idx' = IF Aborts(outcome) THEN Len(indexes_keys)
                            ELSE rec_idx + 1
       IN \/ \* the RPC request raises: the case fails
             /\ done("error")
             /\ UNCHANGED chainVars
          \/ /\ ~Recoverable(remaining_balance, cost)
             /\ done("skipped")
             /\ UNCHANGED chainVars
          \/ /\ Recoverable(remaining_balance, cost)
             /\ done("sent")
             /\ mempool' = Append(mempool, [tx EXCEPT !.mined = TRUE])
             /\ chain_balance' = Apply(tx, chain_balance)
             /\ chain_nonce' = ApplyNonce(tx, chain_nonce)
             /\ UNCHANGED chain_code
    /\ UNCHANGED <<option, flagVars, aggVars, pc, eoa_next, coordVars, ledgerVars, rec_option,
                   rec_gas_price, indexes_keys, rec_phase, rec_pass>>

\* every case ran: the session ends
RecoverFinish ==
    /\ rec_phase = "run"
    /\ rec_idx >= Len(indexes_keys)
    /\ rec_phase' = "finished"
    /\ UNCHANGED <<option, flagVars, aggVars, pc, eoa_next, coordVars, chainVars, ledgerVars,
                   rec_option, rec_gas_price, indexes_keys, rec_idx,
                   rec_pass, rec_log>>

\* the same command is run again, nothing else having used the chain
RecoverAgain ==
    /\ rec_phase = "finished"
    /\ rec_pass = 1
    /\ rec_pass' = 2
    /\ rec_phase' = "collect"
    /\ UNCHANGED <<option, flagVars, aggVars, pc, eoa_next, coordVars, chainVars, ledgerVars,
                   rec_option, rec_gas_price, indexes_keys, rec_idx,
                   rec_log>>

RecoverNext ==
    \/ RecoverGenerate
    \/ RecoverCase
    \/ RecoverFinish
    \/ RecoverAgain

RecoverSpec == RecoverInit /\ [][RecoverNext]_vars

\* =====================================================================
\* The Session Aggregator: Collector and GasInfoAccumulator of execute.py
\* =====================================================================
\* Collector.collect
Collect(test_name, execute_format) ==
    /\ Len(collect_calls) < MaxCalls
    /\ collected_tests' = Collected(test_name, execute_format)
    /\ collect_calls' = Append(collect_calls, <<test_name, execute_format>>)
    /\ UNCHANGED <<option, flagVars, recVars, test_gas_info, add_calls, pc, eoa_next,
                   coordVars, chainVars, ledgerVars>>

\* GasInfoAccumulator.add
Add(test_name, gas_limit, minimum) ==
    /\ Len(add_calls) < MaxCalls
    /\ test_gas_info' = Added(test_name, gas_limit, minimum)
    /\ add_calls' = Append(add_calls,
                           <<test_name, gas_limit, minimum>>)
    /\ UNCHANGED <<option, flagVars, recVars, collected_tests, collect_calls, pc,
                   eoa_next, coordVars, chainVars, ledgerVars>>

\* the test names test_gas_info holds
GasInfoKeys == {t \in TestIds : test_gas_info[t] # NoGasInfo}

RECURSIVE SumGasLimit(_)
SumGasLimit(ts) ==
    IF ts = {} THEN 0
    ELSE LET t == CHOOSE x \in ts : TRUE
         IN test_gas_info[t].gas_limit + SumGasLimit(ts \ {t})

RECURSIVE SumMinimumBalance(_)
SumMinimumBalance(ts) ==
    IF ts = {} THEN 0
    ELSE LET t == CHOOSE x \in ts : TRUE
         IN test_gas_info[t].minimum_balance + SumMinimumBalance(ts \ {t})

\* GasInfoAccumulator.total_gas_limit
total_gas_limit == SumGasLimit(GasInfoKeys)

\* GasInfoAccumulator.total_minimum_balance
total_minimum_balance == SumMinimumBalance(GasInfoKeys)

\* a session whose tests report to the two session fixtures
AggregatorInit ==
    /\ SessionIdle
    /\ chain_balance = [a \in Addrs |-> 0]
    /\ RecoverIdle
    /\ AggregatorFresh
    /\ FlagsIdle

AggregatorNext ==
    \/ \E test_name \in TestIds, execute_format \in ExecuteFormats :
          Collect(test_name, execute_format)
    \/ \E test_name \in TestIds, info \in GasInfos :
          Add(test_name, info[1], info[2])

AggregatorSpec == AggregatorInit /\ [][AggregatorNext]_vars

\* =====================================================================
\* Startup configuration: plugins/execute/execute_flags/execute_flags.py
\* =====================================================================
\* if not chain_id: Python's truth value of an optional integer
FalsyOnlyNone(n) == n = None
Falsy(n) == n = None \/ n = 0

\* pytest starts with some command line
FlagsInit ==
    /\ SessionIdle
    /\ chain_balance = [a \in Addrs |-> 0]
    /\ RecoverIdle
    /\ AggregatorFresh
    /\ flag_option \in [help : BOOLEAN, chain_id : ChainIds,
                        rpc_chain_id : ChainIds]
    /\ configure_outcome = "pending"
    /\ chain_id_default = DefaultChainId

\* pytest_configure
PytestConfigure ==
    /\ configure_outcome = "pending"
    /\ LET chain_id == flag_option.chain_id
           rpc_chain_id == flag_option.rpc_chain_id
       IN IF flag_option.help
          THEN \* return: no validation when help is shown
               /\ configure_outcome' = "help"
               /\ UNCHANGED chain_id_default
          ELSE IF ~((chain_id = None) # (rpc_chain_id = None))
          THEN \* pytest.exit(..., returncode=4)
               /\ configure_outcome' = "exit"
               /\ UNCHANGED chain_id_default
          ELSE /\ configure_outcome' = "configured"
               /\ chain_id_default' =
                     IF Falsy(chain_id) THEN rpc_chain_id ELSE chain_id
    /\ UNCHANGED <<option, recVars, aggVars, flag_option, pc, eoa_next,
                   coordVars, chainVars, ledgerVars>>

FlagsNext == PytestConfigure

FlagsSpec == FlagsInit /\ [][FlagsNext]_vars

\* =====================================================================
\* Properties of the Worker Key Coordinator
\* =====================================================================
\* a worker whose funding transaction was built and not rejected by the node
Issued(w) ==
    /\ Active(w)
    /\ fund_tx[w] # NoTx
    /\ pc[w] # "failed"

NonceSection == {"nonce_load", "fund_send", "nonce_store"}
AmountSection == {"amount_check", "amount_compute"}

RECURSIVE SumAmounts(_)
SumAmounts(ws) ==
    IF ws = {} THEN 0
    ELSE LET w == CHOOSE x \in ws : TRUE
         IN funding_amount[w] + SumAmounts(ws \ {w})

Funded == {w \in Workers : funding_amount[w] # None}

C2_MutualExclusion ==
    /\ Cardinality({w \in Workers : pc[w] \in NonceSection}) <= 1
    /\ Cardinality({w \in Workers : pc[w] \in AmountSection}) <= 1

\* one worker is inside the seed-nonce section while another waits for the
\* lock
C2_Witness ==
    \E w1, w2 \in Workers :
        /\ pc[w1] \in NonceSection
        /\ pc[w2] = "nonce_lock"

\* C3: the funding amount record is written at most once, its value never
\* changes once written, and every worker's funding amount is the recorded
\* value, whatever the seed key's live balance is when the worker asks.
C3_FundingAmountOnce ==
    [][/\ exists(amount_file) => amount_file' = amount_file
       /\ amount_writes' <= 1
       /\ \A w \in Workers :
             funding_amount'[w] # None
                => (exists(amount_file')
                    /\ funding_amount'[w] = int(amount_file'))]_vars

\* a worker took the cached amount when recomputing from the live balance
\* of the seed key would have given another value
C3_Witness ==
    \E w \in Workers :
        /\ pc[w] = "alloc_key"
        /\ amount_cached[w]
        /\ option.seed_account_sweep_amount = None
        /\ get_balance(seed_key) # seed_start_balance
        /\ ComputeFundingAmount # funding_amount[w]

\* C4: for worker_count >= 2 the sum of the workers' funding amounts plus
\* one transaction cost per funded worker never exceeds the starting
\* balance of the seed key.
C4_SeedNotOverspent ==
    option.worker_count >= 2 =>
        SumAmounts(Funded) + Cardinality(Funded) * funding_tx_cost
            <= seed_start_balance

\* C5: no two workers of a session receive the same worker key, and no
\* worker key is the seed key.
C5_WorkerKeysDistinct ==
    option.worker_count >= 2 =>
        \A w1, w2 \in Workers :
            worker_key[w1] # None =>
                /\ worker_key[w1] # seed_key
                /\ (w1 # w2 => worker_key[w1] # worker_key[w2])

\* C6: in dry-run mode no transaction is ever handed to the node.
C6_DryRunSendsNothing ==
    option.dry_run => mempool = <<>>

\* =====================================================================
\* Properties of the cleanup phase of the Ledger
\* =====================================================================
TeardownOver == phase \in {"closed", "td_raised"}

\* positions of _funded_eoa the cleanup loop reached
Examined == {td_log[i].idx : i \in 1 .. Len(td_log)}

Failures == {i \in 1 .. Len(td_log) : td_log[i].outcome \in {"error", "raised"}}

\* C7: the refund of a funded EOA is skipped if and only if
\* remaining_balance - 21000 * max_fee_per_gas <= 0; with balance 21_000_000
\* and fee 1_000 no refund is sent, with balance 21_000_001 a refund of
\* value 1 is sent.
C7_RefundSkippedIff ==
    \A i \in 1 .. Len(td_log) :
        LET e == td_log[i]
        IN e.outcome # "raised" =>
            /\ (e.outcome = "skipped")
                  <=> (e.balance - refund_gas_limit * option.max_fee_per_gas <= 0)
            /\ (option.max_fee_per_gas = 1000 /\ e.balance = 21000000)
                  => e.outcome = "skipped"
            /\ (option.max_fee_per_gas = 1000 /\ e.balance = 21000001)
                  => (e.outcome # "skipped" /\ e.value = 1)

\* C8: when the refund of one funded EOA has failed, the cleanup still
\* reaches every later EOA of the funded list.
C8_FailureKeepsRefunding ==
    TeardownOver =>
        \A i \in Failures :
            \A k \in 1 .. Len(funded_eoa) :
                k > td_log[i].idx => k \in Examined

\* C9: no RPC error of the refund phase leaves the cleanup, and at most one
\* send is attempted for each funded EOA.
C9_RefundErrorsContained ==
    /\ phase # "td_raised"
    /\ \A k \in 1 .. Len(funded_eoa) :
          Cardinality({i \in 1 .. Len(td_log) :
                          /\ td_log[i].idx = k
                          /\ td_log[i].outcome \in {"sent", "error"}}) <= 1

\* C10: the cleanup runs after every test, whatever its verdict; unless
\* dry-run or skip-cleanup is set it examines every funded EOA, and with
\* skip-cleanup it sends no refund.
C10_TeardownAfterEveryTest ==
    /\ phase = "test_ended" => ENABLED TeardownBegin
    /\ TeardownOver =>
          IF option.dry_run \/ option.skip_cleanup
          THEN refund_txs = <<>> /\ td_log = <<>>
          ELSE \A k \in 1 .. Len(funded_eoa) : k \in Examined

\* =====================================================================
\* Properties of the funding amount, the nonce record and the refund
\* =====================================================================
\* floor(available_amount / worker_count) - cost, from the command line and
\* the node
AmountLess(cost) ==
    LET available == IF option.seed_account_sweep_amount # None
                     THEN option.seed_account_sweep_amount
                     ELSE chain_balance[option.rpc_seed_key]
    IN (available \div option.worker_count) - cost

\* cost of one funding transaction
FundingCost ==
    sender_fund_refund_gas_limit * option.sender_funding_transactions_gas_price

\* cost of one refund transaction: same gas limit, twice the gas price
RefundCost ==
    sender_fund_refund_gas_limit
        * (2 * option.sender_funding_transactions_gas_price)

FailedAtCompute(w) == pc[w] = "failed" /\ funding_amount[w] = None

\* C17: when the computed amount is <= 0 the worker fails: it writes no
\* record, is handed no key and sends no funding transaction.
C17_TooLowAmountIsFatal ==
    /\ [](\A w \in Workers :
            FailedAtCompute(w) =>
                /\ ~exists(amount_file)
                /\ worker_key[w] = None
                /\ fund_tx[w] = NoTx
                /\ \A i \in 1 .. Len(mempool) : mempool[i].by # w)
    /\ [][\A w \in Workers :
            (/\ pc[w] = "amount_compute"
             /\ AmountLess(FundingCost) <= 0
             /\ pc'[w] # pc[w])
                => /\ pc'[w] = "failed"
                   /\ ~exists(amount_file')
                   /\ funding_amount'[w] = None]_vars

\* every worker of the session failed on an amount of exactly 0
C17_Witness ==
    /\ option.worker_count >= 2
    /\ AmountLess(FundingCost) = 0
    /\ \A w \in Workers : Active(w) => FailedAtCompute(w)

TestsStarted == {"tests", "refund_query", "refund_send", "done"}

\* C18: with several workers and without dry-run, a worker whose tests have
\* started has a funding transaction to its key that the node included.
C18_TestsAfterFundingConfirmed ==
    (option.worker_count >= 2 /\ ~option.dry_run) =>
        \A w \in Workers :
            pc[w] \in TestsStarted =>
                \E i \in 1 .. Len(mempool) :
                    /\ mempool[i].kind = "fund"
                    /\ mempool[i].by = w
                    /\ mempool[i].to = worker_key[w]
                    /\ mempool[i].value = funding_amount[w]
                    /\ mempool[i].mined

\* a worker runs its tests while another still waits for its funding
C18_Witness ==
    /\ ~option.dry_run
    /\ \E w1, w2 \in Workers :
          pc[w1] = "tests" /\ pc[w2] = "fund_wait"

\* transaction count of the seed key when the session started
seed_start_nonce ==
    chain_nonce[option.rpc_seed_key]
        - Cardinality({i \in 1 .. Len(mempool) :
                          /\ mempool[i].mined
                          /\ mempool[i].sender = option.rpc_seed_key})

IssuedCount == Cardinality({w \in Workers : Issued(w)})

\* C19: while nobody holds the seed-nonce lock, the nonce record (once
\* written) is the starting nonce of the seed key plus the number of funding
\* transactions issued; each funding transaction is built with the starting
\* nonce plus the number of funding transactions issued before it.
C19_NonceRecordIsNextNonce ==
    /\ []((nonce_lock = 0 /\ exists(nonce_file))
            => int(nonce_file) = seed_start_nonce + IssuedCount)
    /\ [][\A w \in Workers :
            fund_tx'[w] # fund_tx[w]
                => fund_tx'[w].nonce = seed_start_nonce + IssuedCount]_vars

\* two funding transactions were issued, the second one after a carry in the
\* decimal record
C19_Witness ==
    /\ nonce_lock = 0
    /\ IssuedCount = 2
    /\ nonce_file = <<1, 1>>
    /\ \E w \in Workers : fund_tx[w] # NoTx /\ fund_tx[w].nonce = 10

\* the refund transactions of a worker
RefundsOf(w) ==
    {i \in 1 .. Len(mempool) :
        mempool[i].kind = "refund" /\ mempool[i].by = w}

\* C20 (as stated): the refund of a worker has twice the funding gas price,
\* its value plus its fee is at most the remaining balance, and it is
\* skipped only when the remaining balance is less than the fee.
C20_RefundSkippedOnlyBelowFee ==
    option.worker_count >= 2 =>
        \A w \in Workers :
            pc[w] = "done" =>
                /\ \A i \in RefundsOf(w) :
                      /\ mempool[i].gas_price =
                            2 * option.sender_funding_transactions_gas_price
                      /\ mempool[i].value + RefundCost <= remaining[w]
                /\ RefundsOf(w) = {} => remaining[w] < RefundCost

\* C20 (amended): the refund of a worker goes to the seed key with twice the
\* funding gas price and value remaining_balance - fee - 1; it is skipped
\* exactly when the remaining balance does not exceed the fee, so that a
\* refund always has a value >= 0 and keeps 1 wei on the worker key.
C20_RefundSkippedUpToFee ==
    option.worker_count >= 2 =>
        \A w \in Workers :
            pc[w] = "done" =>
                /\ \A i \in RefundsOf(w) :
                      /\ mempool[i].sender = worker_key[w]
                      /\ mempool[i].to = option.rpc_seed_key
                      /\ mempool[i].gas_limit = sender_fund_refund_gas_limit
                      /\ mempool[i].gas_price =
                            2 * option.sender_funding_transactions_gas_price
                      /\ mempool[i].value >= 0
                      /\ mempool[i].value + RefundCost = remaining[w] - 1
                /\ Cardinality(RefundsOf(w)) <= 1
                /\ RefundsOf(w) = {} <=> remaining[w] <= RefundCost

\* one worker refunded, another one skipped its refund with a remaining
\* balance equal to the fee
C20_Witness ==
    /\ ~option.dry_run
    /\ \E w1, w2 \in Workers :
          /\ pc[w1] = "done" /\ RefundsOf(w1) # {}
          /\ pc[w2] = "done" /\ RefundsOf(w2) = {}
          /\ remaining[w2] = RefundCost

\* =====================================================================
\* Properties of the phases and of the pending queue of the Ledger
\* =====================================================================
\* the phases of the Ledger's state machine, in their order; the cleanup
\* loop (query, send, wait) is the refunding phase
PhaseRank(p) ==
    CASE p = "idle" -> 0
      [] p = "accumulating" -> 1
      [] p = "computed" -> 2
      [] p = "sent" -> 3
      [] p \in {"awaiting", "included"} -> 4
      [] p = "confirmed" -> 5
      [] p = "test_ended" -> 6
      [] p \in {"td_query", "td_send", "td_wait"} -> 7
      [] p \in {"td_raised", "closed"} -> 8

Refunding == {"td_query", "td_send", "td_wait"}

\* the transactions of the queue that the node holds
QueueSent ==
    {i \in 1 .. Len(mempool) : mempool[i].kind # "refund_from_eoa"}

\* every queued transaction is in a block, and every deployed contract has
\* its expected code on the chain
SetupConfirmed ==
    /\ \A i \in 1 .. Len(pending_txs) :
          \E k \in 1 .. Len(mempool) :
             /\ mempool[k].mined
             /\ mempool[k].sender = worker_key[1]
             /\ mempool[k].nonce = pending_txs[i].nonce
             /\ mempool[k].kind = pending_txs[i].action
    /\ \A i \in 1 .. Len(deployed_contracts) :
          chain_code[deployed_contracts[i][1]] = deployed_contracts[i][2]

C12_QueueSentInOrder ==
    [][(phase = "computed" /\ phase' = "sent") =>
          /\ Len(mempool') = Len(mempool) + Len(pending_txs)
          /\ SubSeq(mempool', 1, Len(mempool)) = mempool
          /\ \A i \in 1 .. Len(pending_txs) :
                LET m == mempool'[Len(mempool) + i]
                IN /\ m.kind = pending_txs[i].action
                   /\ m.sender = worker_key[1]
                   /\ m.to = pending_txs[i].to
                   /\ m.value = pending_txs[i].value
                   /\ m.gas_limit = pending_txs[i].gas_limit
                   /\ m.nonce = pending_txs[i].nonce
                   /\ m.data = pending_txs[i].data
          /\ \A i, j \in 1 .. Len(pending_txs) :
                i < j => mempool'[Len(mempool) + i].nonce
                            < mempool'[Len(mempool) + j].nonce]_vars

\* the three transactions of a fund_eoa with storage were sent
C12_Witness ==
    /\ phase = "sent"
    /\ Len(mempool) = 3
    /\ mempool[1].kind = "deploy_contract"
    /\ mempool[2].kind = "eoa_storage_set"
    /\ mempool[3].kind = "fund_eoa"

\* C13: no transaction reaches the node with a deferred value, and once
\* the queue was sent no queued transaction is deferred.
C13_NoDeferredValueSent ==
    /\ \A i \in 1 .. Len(mempool) : mempool[i].value # None
    /\ PhaseRank(phase) \in 3 .. 5
          => \A i \in 1 .. Len(pending_txs) : pending_txs[i].value # None

\* a deferred funding was resolved to the balance of its recipient and sent
C13_Witness ==
    /\ phase = "sent"
    /\ \E i \in 1 .. Len(mempool) :
          /\ mempool[i].kind = "fund_eoa"
          /\ mempool[i].to \in DOMAIN sender_balances
          /\ mempool[i].value = sender_balances[mempool[i].to]
          /\ alloc[mempool[i].to].balance = 0

DeferredIn(txs) == {i \in 1 .. Len(txs) : txs[i].value = None}

\* C14: minimum_balance_for_pending_transactions fails exactly when a
\* deferred transaction has a recipient without an observed balance, and
\* then nothing is transmitted for the test; otherwise every deferred value
\* becomes the observed balance of its recipient, nothing else changes, and
\* no queued transaction stays deferred.
C14_DeferredValuesResolved ==
    /\ [](test_outcome = "unresolved" => mempool = <<>>)
    /\ [][(/\ phase = "accumulating"
           /\ phase' = "computed" \/ test_outcome' = "unresolved") =>
            LET absent == \E i \in DeferredIn(pending_txs) :
                             pending_txs[i].to \notin DOMAIN sender_balances'
            IN /\ absent <=> test_outcome' = "unresolved"
               /\ absent => phase' = "test_ended"
               /\ ~absent =>
                     /\ phase' = "computed"
                     /\ Len(pending_txs') = Len(pending_txs)
                     /\ DeferredIn(pending_txs') = {}
                     /\ \A i \in 1 .. Len(pending_txs) :
                           pending_txs'[i] =
                              IF i \in DeferredIn(pending_txs)
                              THEN [pending_txs[i] EXCEPT !.value =
                                       sender_balances'[pending_txs[i].to]]
                              ELSE pending_txs[i]]_vars

\* the test of two funded EOAs failed on a deferred value, and its cleanup
\* ran to the end
C14_Witness ==
    /\ test_outcome = "unresolved"
    /\ phase = "closed"
    /\ ~option.dry_run /\ ~option.skip_cleanup
    /\ Len(funded_eoa) = 2
    /\ Len(td_log) = 2

\* C15: the minimum balance returned is at least the sum of gas_limit *
\* gas_price plus the sum of the values of the queued transactions, and the
\* gas returned is the sum of their gas limits.
C15_MinimumBalanceCovers ==
    minimum_balance # None =>
        /\ minimum_balance >=
              SumOver(LAMBDA tx : tx.gas_limit
                          * (option.max_fee_per_gas
                               + option.max_priority_fee_per_gas),
                      pending_txs, Len(pending_txs))
              + SumOver(LAMBDA tx : tx.value, pending_txs, Len(pending_txs))
        /\ gas_consumption =
              SumOver(LAMBDA tx : tx.gas_limit, pending_txs, Len(pending_txs))

\* the minimum balance of a deployment, a resolved deferred funding and a
\* transfer to an address
C15_Witness ==
    /\ phase = "computed"
    /\ minimum_balance # None
    /\ \E i, j, k \in 1 .. Len(pending_txs) :
          /\ pending_txs[i].action = "deploy_contract"
          /\ pending_txs[j].action = "fund_eoa"
          /\ pending_txs[j].to \in DOMAIN sender_balances
          /\ pending_txs[j].value = sender_balances[pending_txs[j].to]
          /\ pending_txs[k].action = "fund_address"

\* =====================================================================
\* Single-worker mode
\* =====================================================================
\* C21: with worker_count <= 1 the key handed to the tests is the seed key
\* and nothing is coordinated: no funding or refund transaction reaches the
\* node, the worker_key_funding_amount and seed_sender_nonce records are
\* never written and their locks never taken.
C21_SingleWorkerUsesSeedKey ==
    option.worker_count <= 1 =>
        /\ mempool = <<>>
        /\ ~exists(amount_file) /\ ~exists(nonce_file)
        /\ amount_lock = 0 /\ nonce_lock = 0
        /\ amount_writes = 0
        /\ \A w \in Workers :
              /\ fund_tx[w] = NoTx
              /\ funding_amount[w] = None
              /\ pc[w] \in {"start", "single", "single_tests", "done"}
              /\ pc[w] \in {"single_tests", "done"}
                    => worker_key[w] = seed_key

\* the single worker ran its tests on the seed key and its session ended
C21_Witness ==
    /\ option.worker_count = 1
    /\ pc[1] = "done"
    /\ worker_key[1] = seed_key
    /\ remaining[1] # seed_start_balance

\* =====================================================================
\* Alloc.deploy_contract
\* =====================================================================
\* a step of deploy_contract(code, storage, balance, nonce, evm_code_type)
\* that ran to a size assertion or past the append to _pending_txs
DeployStep ==
    /\ phase = "accumulating"
    /\ last_call'.op = "deploy_contract"
    /\ Len(last_call'.args) = 5
    /\ \/ Len(pending_txs') = Len(pending_txs) + 1
       \/ test_outcome' \in {"code_too_large", "initcode_too_large"}

SizeErrors == {"code_too_large", "initcode_too_large"}

Oversized ==
    LET code == last_call'.args[1]
        slots == last_call'.args[2]
        evm_code_type == last_call'.args[5]
    IN \/ code > MAX_BYTECODE_SIZE
       \/ 5 * slots + (IF evm_code_type = "EOF_V1" THEN 31 ELSE 11) + code
             > MAX_INITCODE_SIZE

\* C23: a size-limit error of deploy_contract comes before any network call
\* and ends that test only: the call issued no RPC request, queued nothing,
\* added no deployed-contract entry and sent nothing, the chain is as it
\* was, the worker process goes on, and no oversized code is ever queued or
\* sent.
C23_SizeErrorBeforeNetwork ==
    /\ [](/\ \A i \in 1 .. Len(pending_txs) :
                pending_txs[i].data <= MAX_BYTECODE_SIZE
          /\ \A i \in 1 .. Len(mempool) :
                mempool[i].data <= MAX_BYTECODE_SIZE)
    /\ [][(DeployStep /\ Oversized) =>
            /\ test_outcome' \in SizeErrors
            /\ phase' = "test_ended"
            /\ last_call'.rpc = <<>>
            /\ pending_txs' = pending_txs
            /\ deployed_contracts' = deployed_contracts
            /\ alloc' = alloc
            /\ sender_nonce' = sender_nonce
            /\ mempool' = mempool
            /\ chain_balance' = chain_balance
            /\ chain_nonce' = chain_nonce
            /\ chain_code' = chain_code
            /\ pc' = pc]_vars

\* an initcode above the limit was refused after another deployment had
\* been queued: that one stays queued, nothing was sent
C23_Witness ==
    /\ test_outcome = "initcode_too_large"
    /\ last_call.op = "deploy_contract"
    /\ last_call.args[1] = MAX_BYTECODE_SIZE
    /\ last_call.rpc = <<>>
    /\ Len(pending_txs) = 1
    /\ Len(deployed_contracts) = 1
    /\ mempool = <<>>

\* a step of deploy_contract that returned an address
DeployReturned ==
    /\ phase = "accumulating"
    /\ last_call'.op = "deploy_contract"
    /\ phase' = "accumulating"
    /\ alloc' # alloc

\* C24: every address deploy_contract returns, deployed or resolved from a
\* stub, has an expected nonce of at least one in the Ledger.
C24_ReturnedNonceAtLeastOne ==
    [][DeployReturned =>
         \A a \in Addrs : alloc'[a] # alloc[a] => alloc'[a].nonce >= 1]_vars

\* a step of deploy_contract(code, stub=...)
StubStep ==
    /\ phase = "accumulating"
    /\ last_call'.op = "deploy_contract"
    /\ Len(last_call'.args) = 1

\* C25: deploy_contract with a stub label resolves the label instead of
\* deploying: no transaction is queued, no deployed-contract entry added and
\* nothing sent; a label that is not in the registry is a stub-not-found
\* error, an address without code a stub-empty error; otherwise the call
\* returns and the expected account of the registered address holds the
\* nonce, balance and code the chain has, every other entry being kept.
C25_StubResolved ==
    [][StubStep =>
         LET stub == last_call'.args[1]
             registered == stub \in {"known", "empty"}
             address == IF stub = "known" THEN StubAddr ELSE EmptyStubAddr
         IN /\ pending_txs' = pending_txs
            /\ deployed_contracts' = deployed_contracts
            /\ sender_nonce' = sender_nonce
            /\ mempool' = mempool
            /\ ~registered => /\ test_outcome' = "stub_not_found"
                              /\ phase' = "test_ended"
                              /\ alloc' = alloc
            /\ (registered /\ chain_code[address] = 0) =>
                  /\ test_outcome' = "stub_empty"
                  /\ phase' = "test_ended"
                  /\ alloc' = alloc
            /\ (registered /\ chain_code[address] # 0) =>
                  /\ test_outcome' = test_outcome
                  /\ phase' = "accumulating"
                  /\ alloc'[address] = [nonce |-> chain_nonce[address],
                                        balance |-> chain_balance[address],
                                        code |-> chain_code[address]]
                  /\ \A a \in Addrs \ {address} : alloc'[a] = alloc[a]]_vars

\* the stub "known" was resolved: nothing queued, the account as on the chain
C25_Witness ==
    /\ last_call.op = "deploy_contract"
    /\ last_call.args = <<"known">>
    /\ test_outcome = "running"
    /\ pending_txs = <<>>
    /\ deployed_contracts = <<>>
    /\ alloc[StubAddr].balance = chain_balance[StubAddr]
    /\ alloc[StubAddr].balance > 0
    /\ alloc[StubAddr].code = chain_code[StubAddr]
    /\ alloc[StubAddr].nonce = chain_nonce[StubAddr]

\* a step of deploy_contract that queued its deployment
DeployQueued == DeployStep /\ Len(pending_txs') = Len(pending_txs) + 1

\* C26 as stated: the gas limit of every queued deployment is twice the sum
\* of 21000 + 32000, 22600 per storage slot, 200 per code byte, the memory
\* expansion of the init payload and its calldata cost, capped at
\* 30,000,000.
C26_GasLimitWithMemoryExpansion ==
    [][DeployQueued =>
         LET code == last_call'.args[1]
             slots == last_call'.args[2]
             initcode == initcode_len(code, slots, last_call'.args[5])
             tx == pending_txs'[Len(pending_txs')]
         IN tx.gas_limit =
               Min(2 * (21000 + 32000 + 22600 * slots + 200 * code
                        + memory_expansion_gas(initcode)
                        + calldata_gas(initcode)),
                   30000000)]_vars

\* C26, amended: the memory expansion is part of the sum for a legacy
\* initcode only; the limit never exceeds 30,000,000, and with 3 storage
\* slots it is at least 2 * (21000 + 32000 + 3 * 22600).
C26_GasLimitLegacyMemoryExpansion ==
    [][DeployQueued =>
         LET code == last_call'.args[1]
             slots == last_call'.args[2]
             evm_code_type == last_call'.args[5]
             initcode == initcode_len(code, slots, evm_code_type)
             tx == pending_txs'[Len(pending_txs')]
         IN /\ tx.gas_limit =
                  Min(2 * (21000 + 32000 + 22600 * slots + 200 * code
                           + (IF evm_code_type = "EOF_V1" THEN 0
                              ELSE memory_expansion_gas(initcode))
                           + calldata_gas(initcode)),
                      30000000)
            /\ tx.gas_limit <= 30000000
            /\ slots = 3 => tx.gas_limit >= 2 * (21000 + 32000 + 3 * 22600)]_vars

\* a legacy deployment at the cap, and an EOF deployment with 3 slots below
\* it
C26_Witness ==
    /\ Len(pending_txs) = 2
    /\ pending_txs[1].action = "deploy_contract"
    /\ pending_txs[1].gas_limit = 30000000
    /\ pending_txs[2].action = "deploy_contract"
    /\ pending_txs[2].gas_limit < 30000000
    /\ last_call.op = "deploy_contract"
    /\ last_call.args[2] = 3
    /\ last_call.args[5] = "EOF_V1"
    /\ test_outcome = "running"

\* =====================================================================
\* Alloc.fund_eoa, fund_address and empty_account
\* =====================================================================
\* a step of fund_eoa(amount) with neither storage nor delegation
PlainFundStep ==
    /\ phase = "accumulating"
    /\ last_call'.op = "fund_eoa"
    /\ last_call'.args[2] = None
    /\ last_call'.args[3] = None
    /\ eoa_next' # eoa_next

\* C27: fund_eoa with neither storage nor delegation queues exactly one
\* plain transfer to the new EOA when the amount is unspecified or above
\* zero and nothing when it is 0; in each case the call itself records the
\* expected account of the EOA (nonce 0; the amount as balance, which stays
\* at the default 0 for an unspecified amount), so every EOA a transaction
\* was sent to has its expected account.
C27_PlainFundEoa ==
    /\ [](\A i \in 1 .. Len(mempool) :
             mempool[i].kind = "fund_eoa" =>
                /\ alloc[mempool[i].to] # NoAccount
                /\ alloc[mempool[i].to].nonce = 0)
    /\ [][PlainFundStep =>
            LET amount == last_call'.args[1]
                eoa == eoa_next[1]
            IN /\ (amount = None \/ amount > 0) =>
                     pending_txs' = Append(pending_txs,
                        [action |-> "fund_eoa", to |-> eoa, value |-> amount,
                         gas_limit |-> 21000, nonce |-> sender_nonce,
                         auth |-> 0, data |-> 0, auth_nonce |-> None])
               /\ amount = 0 => pending_txs' = pending_txs
               /\ alloc'[eoa] = [nonce |-> 0,
                                 balance |-> IF amount = None THEN 0
                                             ELSE amount,
                                 code |-> 0]
               /\ funded_eoa' = Append(funded_eoa, eoa)
               /\ mempool' = mempool
               /\ mempool = <<>>]_vars

\* one EOA funded with an unspecified amount (one deferred transfer) and one
\* with amount 0 (nothing queued), both with an expected account
C27_Witness ==
    /\ Len(funded_eoa) = 2
    /\ pending_txs = <<[action |-> "fund_eoa", to |-> funded_eoa[1],
                        value |-> None, gas_limit |-> 21000, nonce |-> 0,
                        auth |-> 0, data |-> 0, auth_nonce |-> None]>>
    /\ alloc[funded_eoa[1]] = Account(0, 0, 0)
    /\ alloc[funded_eoa[2]] = Account(0, 0, 0)
    /\ last_call = Call("fund_eoa", <<0, None, None>>, <<>>)
    /\ phase = "accumulating"

\* the keys the eoa_iterator of worker process `w` has handed out
HandedOut(w) == option.eoa_iterator_start .. (eoa_next[w] - 1)

\* C28: a key of the EOA generator is handed out at most once in a run: a
\* process's iterator never goes back, and no key is handed out by the
\* iterators of two worker processes.
C28_EoaNeverReused ==
    /\ [](\A w1, w2 \in Workers :
             w1 # w2 => HandedOut(w1) \cap HandedOut(w2) = {})
    /\ [][\A w \in Workers : eoa_next'[w] >= eoa_next[w]]_vars

\* a step of fund_address(address, amount)
FundAddressStep ==
    /\ phase = "accumulating"
    /\ last_call'.op = "fund_address"
    /\ Len(pending_txs') = Len(pending_txs) + 1

\* the sum of the values of the first n queued transactions that pay `a`
RECURSIVE QueuedValue(_, _)
QueuedValue(a, n) ==
    IF n = 0 THEN 0
    ELSE QueuedValue(a, n - 1)
         + (IF pending_txs[n].to = a /\ pending_txs[n].value # None
            THEN pending_txs[n].value ELSE 0)

\* C29: every fund_address(address, amount) queues exactly one transfer of
\* the amount to the address; an address that has an expected account keeps
\* it with the amount added to its balance, another gets a new account with
\* the amount as balance; so while a test builds its Ledger the expected
\* balance of an address is the sum of the amounts queued for it.
C29_FundAddressAccumulates ==
    /\ [](phase = "accumulating" =>
             \A a \in EoaAddrs :
                alloc[a] # NoAccount =>
                   alloc[a].balance = QueuedValue(a, Len(pending_txs)))
    /\ [][FundAddressStep =>
            LET address == last_call'.args[1]
                amount == last_call'.args[2]
            IN /\ pending_txs' = Append(pending_txs,
                     [action |-> "fund_address", to |-> address,
                      value |-> amount, gas_limit |-> 21000,
                      nonce |-> sender_nonce, auth |-> 0, data |-> 0,
                      auth_nonce |-> None])
               /\ alloc[address] # NoAccount =>
                     alloc'[address] =
                        [nonce |-> alloc[address].nonce,
                         balance |-> alloc[address].balance + amount,
                         code |-> alloc[address].code]
               /\ alloc[address] = NoAccount =>
                     alloc'[address] =
                        [nonce |-> 0, balance |-> amount, code |-> 0]
               /\ \A a \in Addrs \ {address} : alloc'[a] = alloc[a]
               /\ funded_eoa' = funded_eoa
               /\ deployed_contracts' = deployed_contracts]_vars

\* an EOA delegated to itself, whose expected account has nonce 1, was
\* funded twice with fund_address
C29_Witness ==
    /\ phase = "accumulating"
    /\ Len(funded_eoa) = 1
    /\ Len(pending_txs) = 3
    /\ alloc[funded_eoa[1]] = Account(1, 14, 0)
    /\ last_call = Call("fund_address", <<funded_eoa[1], 7>>, <<>>)

\* the accounts empty_account handed out: allocated, never funded
EmptyAccounts == Allocated \ Range(funded_eoa)

\* a step of empty_account()
EmptyAccountStep ==
    /\ phase = "accumulating"
    /\ last_call'.op = "empty_account"
    /\ eoa_next' # eoa_next

\* C30: empty_account allocates a fresh EOA and leaves the pending queue,
\* the deployed-contract list and the funded-EOA list as they were; its
\* expected nonce and balance are 0; no transaction is ever sent to it or
\* from it, no refund in particular, and the cleanup never examines it.
C30_EmptyAccountUntouched ==
    /\ [](\A eoa \in EmptyAccounts :
             /\ alloc[eoa] = [nonce |-> 0, balance |-> 0, code |-> 0]
             /\ \A i \in 1 .. Len(pending_txs) : pending_txs[i].to # eoa
             /\ \A i \in 1 .. Len(mempool) : /\ mempool[i].sender # eoa
                                             /\ mempool[i].to # eoa
             /\ \A i \in 1 .. Len(refund_txs) : refund_txs[i].sender # eoa
             /\ \A i \in 1 .. Len(td_log) : td_log[i].eoa # eoa
             /\ chain_balance[eoa] = 0
             /\ chain_nonce[eoa] = 0)
    /\ [][EmptyAccountStep =>
            LET eoa == eoa_next[1]
            IN /\ eoa \notin Allocated
               /\ alloc[eoa] = NoAccount
               /\ eoa_next'[1] = eoa + 1
               /\ alloc'[eoa] = [nonce |-> 0, balance |-> 0, code |-> 0]
               /\ \A a \in Addrs \ {eoa} : alloc'[a] = alloc[a]
               /\ pending_txs' = pending_txs
               /\ deployed_contracts' = deployed_contracts
               /\ funded_eoa' = funded_eoa
               /\ sender_nonce' = sender_nonce
               /\ mempool' = mempool]_vars

\* a test that took an empty account and funded an EOA is torn down: one
\* refund was sent and included, none from the empty account
C30_Witness ==
    /\ TeardownOver
    /\ Cardinality(EmptyAccounts) = 1
    /\ Len(funded_eoa) = 1
    /\ Len(refund_txs) = 1
    /\ AllIncluded(refund_txs)

\* =====================================================================
\* The Recovery Scanner
\* =====================================================================
\* the cases recovery session `p` ran, in order
PassLog(p) == SelectSeq(rec_log, LAMBDA e : e.pass = p)

\* C31: with max_index = N and start index s the recovery has one case for
\* every index of [0, N), in order, each once, with the key s + index, which
\* is the key the EOA iterator started at s hands out as its index-th; and
\* every case runs once in a session, whatever the outcome of the cases
\* before it.
C31_ScanVisitsEveryIndex ==
    /\ rec_phase \in {"run", "finished"} =>
          /\ Len(indexes_keys) = rec_option.max_index
          /\ \A n \in 1 .. Len(indexes_keys) :
                /\ indexes_keys[n][1] = n - 1
                /\ indexes_keys[n][2] = rec_option.start_eoa_index + (n - 1)
                /\ indexes_keys[n][2] =
                      NthKey(rec_option.start_eoa_index, n - 1)
    /\ rec_phase = "run" => Len(PassLog(rec_pass)) = rec_idx
    /\ rec_phase = "finished" =>
          Len(PassLog(rec_pass)) = rec_option.max_index
    /\ \A n \in 1 .. Len(PassLog(rec_pass)) :
          /\ PassLog(rec_pass)[n].index = n - 1
          /\ PassLog(rec_pass)[n].eoa = rec_option.start_eoa_index + (n - 1)

\* a session over two indexes ended: the case of index 0 failed, the case of
\* index 1 sent its transfer
C31_Witness ==
    /\ rec_phase = "finished"
    /\ rec_pass = 1
    /\ rec_option.max_index = 2
    /\ PassLog(1)[1].outcome = "error"
    /\ PassLog(1)[2].outcome = "sent"
    /\ chain_balance[rec_option.destination] > 0

\* what recovery session `p` sent to the destination
RECURSIVE SentValue(_, _)
SentValue(p, n) ==
    IF n = 0 THEN 0
    ELSE SentValue(p, n - 1)
         + (IF mempool[n].kind = "recover" /\ mempool[n].by = p
            THEN mempool[n].value ELSE 0)

Recovered(p) == SentValue(p, Len(mempool))

RECURSIVE LastCollected(_, _)
LastCollected(t, n) ==
    IF n = 0 THEN "none"
    ELSE IF collect_calls[n][1] = t THEN collect_calls[n][2]
         ELSE LastCollected(t, n - 1)

\* C33: collect is idempotent and its last write wins: the recorded outcome
\* of every test id is the result of the most recent collect for that id
\* (none without one), a collect leaves the outcomes of the other ids as
\* they were, and a collect of what is already recorded changes nothing.
C33_CollectLastWriteWins ==
    /\ [](\A t \in TestIds :
             collected_tests[t] = LastCollected(t, Len(collect_calls)))
    /\ [][collect_calls' # collect_calls =>
            LET call == collect_calls'[Len(collect_calls')]
            IN /\ collect_calls' = Append(collect_calls, call)
               /\ collected_tests'[call[1]] = call[2]
               /\ \A t \in TestIds \ {call[1]} :
                     collected_tests'[t] = collected_tests[t]
               /\ collected_tests[call[1]] = call[2] =>
                     collected_tests' = collected_tests]_vars

\* one test id was collected with one result, then twice with another
C33_Witness ==
    /\ collect_calls = <<<<"test_a", "execute_1">>, <<"test_a", "execute_2">>,
                         <<"test_a", "execute_2">>>>
    /\ collected_tests["test_a"] = "execute_2"
    /\ collected_tests["test_b"] = "none"

\* the sums of what the first n calls of add passed
RECURSIVE AddedGasLimit(_)
AddedGasLimit(n) ==
    IF n = 0 THEN 0 ELSE AddedGasLimit(n - 1) + add_calls[n][2]

RECURSIVE AddedMinimumBalance(_)
AddedMinimumBalance(n) ==
    IF n = 0 THEN 0 ELSE AddedMinimumBalance(n - 1) + add_calls[n][3]

\* what the latest of the first n calls of add passed for test `t`
RECURSIVE LastAdded(_, _)
LastAdded(t, n) ==
    IF n = 0 THEN [gas_limit |-> None, minimum_balance |-> None]
    ELSE IF add_calls[n][1] = t
         THEN [gas_limit |-> add_calls[n][2],
               minimum_balance |-> add_calls[n][3]]
         ELSE LastAdded(t, n - 1)

\* the ids the calls of add named
AddedIds == {add_calls[n][1] : n \in 1 .. Len(add_calls)}

RECURSIVE SumLastAdded(_)
SumLastAdded(ts) ==
    IF ts = {} THEN [gas_limit |-> 0, minimum_balance |-> 0]
    ELSE LET t == CHOOSE x \in ts : TRUE
             rest == SumLastAdded(ts \ {t})
             last == LastAdded(t, Len(add_calls))
         IN [gas_limit |-> rest.gas_limit + last.gas_limit,
             minimum_balance |-> rest.minimum_balance + last.minimum_balance]

\* C34 as stated: the accumulator is append-only: an add never removes or
\* alters an entry recorded earlier, and total_gas_limit() and
\* total_minimum_balance() are the sums of all added values.
C34_AccumulatorAppendOnly ==
    /\ [](/\ total_gas_limit = AddedGasLimit(Len(add_calls))
          /\ total_minimum_balance = AddedMinimumBalance(Len(add_calls)))
    /\ [][\A t \in TestIds :
             test_gas_info[t] # [gas_limit |-> None, minimum_balance |-> None]
                => test_gas_info'[t] = test_gas_info[t]]_vars

\* C34, amended: the accumulator holds one entry per test id: an add never
\* removes an entry and never alters the entry of another id, an add for an
\* id that has an entry replaces it, and the totals are the sums, over the
\* ids, of the values of the latest add for each id.
C34_AccumulatorLatestPerId ==
    /\ [](/\ \A t \in TestIds :
                test_gas_info[t] = LastAdded(t, Len(add_calls))
          /\ total_gas_limit = SumLastAdded(AddedIds).gas_limit
          /\ total_minimum_balance = SumLastAdded(AddedIds).minimum_balance)
    /\ [][add_calls' # add_calls =>
            LET call == add_calls'[Len(add_calls')]
            IN /\ add_calls' = Append(add_calls, call)
               /\ test_gas_info'[call[1]] =
                     [gas_limit |-> call[2], minimum_balance |-> call[3]]
               /\ \A t \in TestIds \ {call[1]} :
                     test_gas_info'[t] = test_gas_info[t]]_vars

\* a test id was added twice, another once: the totals count the second add
\* of the first id
C34_Witness ==
    /\ add_calls = <<<<"test_a", 21000, 100>>, <<"test_a", 42000, 300>>,
                     <<"test_b", 21000, 100>>>>
    /\ total_gas_limit = 63000
    /\ total_minimum_balance = 400

\* =====================================================================
\* Startup configuration
\* =====================================================================
\* C35: exactly one of --chain-id and --rpc-chain-id is accepted: with both
\* or with neither the startup ends with a fatal error, and with exactly
\* one the effective chain id is the value given, whatever integer it is
\* (runs that only show the help aside).
C35_ExactlyOneChainId ==
    (configure_outcome # "pending" /\ ~flag_option.help) =>
        LET chain_id == flag_option.chain_id
            rpc_chain_id == flag_option.rpc_chain_id
        IN /\ (chain_id = None) = (rpc_chain_id = None) =>
                 configure_outcome = "exit"
           /\ (chain_id # None /\ rpc_chain_id = None) =>
                 /\ configure_outcome = "configured"
                 /\ chain_id_default = chain_id
           /\ (chain_id = None /\ rpc_chain_id # None) =>
                 /\ configure_outcome = "configured"
                 /\ chain_id_default = rpc_chain_id

\* =====================================================================
\* A funding transaction that fails to send
\* =====================================================================
\* the worker's send_transaction raised inside the critical section
FailedAtSend(w) == pc[w] = "failed" /\ fund_tx[w] # NoTx

\* the nonces of the funding transactions the node was sent
FundNonces ==
    {mempool[i].nonce : i \in {j \in 1 .. Len(mempool) :
                                  mempool[j].kind = "fund"}}

\* the nonce of a failed funding transaction was used by nobody so far
Unconsumed(w) ==
    /\ FailedAtSend(w)
    /\ fund_tx[w].nonce \notin FundNonces
    /\ \A v \in Workers :
          pc[v] \in {"fund_send", "nonce_store"}
              => fund_tx[v].nonce # fund_tx[w].nonce

\* C36: when a worker's funding transaction fails to send inside the
\* critical section the worker fails, the lock is released and the nonce
\* record is left as it was; the next worker that builds a funding
\* transaction uses the nonce that was not consumed, and the nonces of the
\* funding transactions sent have no gap.
C36_FailedSendKeepsNonce ==
    /\ [](\A n \in FundNonces :
             \A m \in FundNonces : m < n => (n - 1) \in FundNonces)
    /\ [][\A w \in Workers :
            /\ (pc[w] = "fund_send" /\ pc'[w] = "failed")
                  => /\ nonce_lock = w
                     /\ nonce_lock' = 0
                     /\ nonce_file' = nonce_file
                     /\ mempool' = mempool
            /\ (pc[w] = "nonce_load" /\ pc'[w] = "fund_send")
                  => \A v \in Workers :
                        Unconsumed(v) => fund_tx'[w].nonce = fund_tx[v].nonce
         ]_vars

\* one worker failed to send, and a later worker sent its funding
\* transaction with the same nonce
C36_Witness ==
    \E w, v \in Workers :
        /\ w # v
        /\ FailedAtSend(w)
        /\ pc[v] \in {"fund_wait", "tests"}
        /\ fund_tx[v].nonce = fund_tx[w].nonce
        /\ exists(nonce_file)
        /\ int(nonce_file) = fund_tx[w].nonce + 1

\* =====================================================================
\* Progress of the workers
\* =====================================================================
\* the seed-nonce critical section: from the lock to the record's write
InCriticalSection(w) == pc[w] \in {"nonce_load", "fund_send", "nonce_store"}

\* the worker asked for the seed-nonce lock and was not handed its key yet
BeingFunded(w) ==
    pc[w] = "nonce_lock" \/ InCriticalSection(w) \/ pc[w] = "fund_wait"

DeployErrors ==
    SizeErrors \cup {"stub_not_found", "stub_empty", "nonce_below_one"}

\* a call of deploy_contract raised
DeployFailed ==
    /\ phase = "accumulating"
    /\ last_call'.op = "deploy_contract"
    /\ test_outcome' \in DeployErrors

\* C38: a deploy_contract call that fails, whatever the reason (unknown or
\* empty stub, code or initcode too large, nonce below one), leaves the
\* Ledger as it was: no pending transaction, no deployed-contract entry and
\* no expected account was added.
C38_FailedDeployLeavesLedger ==
    [][DeployFailed =>
          /\ pending_txs' = pending_txs
          /\ deployed_contracts' = deployed_contracts
          /\ alloc' = alloc
          /\ sender_nonce' = sender_nonce]_vars

\* =====================================================================
\* The authorizations of a funded EOA
\* =====================================================================
RECURSIVE SignedBy(_, _)
\* the nonces of the authorization tuples `eoa` signed in the first `k`
\* queued transactions, in queue order
SignedBy(eoa, k) ==
    IF k = 0 THEN <<>>
    ELSE IF pending_txs[k].to = eoa /\ pending_txs[k].auth = 1
         THEN Append(SignedBy(eoa, k - 1), pending_txs[k].auth_nonce)
         ELSE SignedBy(eoa, k - 1)

\* a step of fund_eoa that returned an EOA
FundEoaStep ==
    /\ phase = "accumulating"
    /\ last_call'.op = "fund_eoa"
    /\ Len(funded_eoa') = Len(funded_eoa) + 1

\* C39: the expected nonce recorded for an EOA fund_eoa returned is the
\* number of authorization tuples the EOA signed in the queued
\* transactions: none without storage and delegation, one with a delegation
\* only, two with storage; the tuples carry the nonces 0, 1, ... in queue
\* order; and the EOA is in the funded-EOA list exactly once.
C39_ExpectedNonceCountsTuples ==
    /\ [](\A i \in 1 .. Len(funded_eoa) :
             LET eoa == funded_eoa[i]
                 tuples == SignedBy(eoa, Len(pending_txs))
             IN /\ alloc[eoa].nonce = Len(tuples)
                /\ \A k \in 1 .. Len(tuples) : tuples[k] = k - 1
                /\ \A j \in 1 .. Len(funded_eoa) :
                      funded_eoa[j] = eoa => j = i)
    /\ [][FundEoaStep =>
            LET storage == last_call'.args[2]
                delegation == last_call'.args[3]
                eoa == funded_eoa'[Len(funded_eoa')]
            IN alloc'[eoa].nonce =
                  IF storage # None THEN 2
                  ELSE IF delegation # None THEN 1 ELSE 0]_vars

\* an EOA funded with storage: the storage tuple and the tuple of the
\* funding transaction, with the nonces 0 and 1, and expected nonce 2
C39_Witness ==
    \E i \in 1 .. Len(funded_eoa) :
        /\ SignedBy(funded_eoa[i], Len(pending_txs)) = <<0, 1>>
        /\ alloc[funded_eoa[i]].nonce = 2
        /\ last_call.op = "fund_eoa"
        /\ last_call.args[2] # None

\* =====================================================================
\* The refund transactions of the cleanup
\* =====================================================================
\* the cleanup loop sent the refund of the EOA at td_idx
RefundSent ==
    /\ phase = "td_send"
    /\ Len(refund_txs') = Len(refund_txs) + 1

\* the cleanup loop read the balance and the transaction count of the EOA
\* at td_idx
Queried ==
    /\ phase = "td_query"
    /\ \/ phase' = "td_send"
       \/ /\ Len(td_log') = Len(td_log) + 1
          /\ td_log'[Len(td_log')].outcome = "skipped"

\* C40: every refund transaction the cleanup sent goes from a funded EOA to
\* the Ledger's spending key with gas limit 21000, its value is not
\* negative and value + 21000 * max_fee_per_gas is the balance of the EOA
\* the cleanup read, its nonce is the transaction count the cleanup read
\* for that EOA, and no funded EOA has two refunds.
C40_RefundWellFormed ==
    /\ [](\A i \in 1 .. Len(refund_txs) :
             LET tx == refund_txs[i]
             IN /\ tx.kind = "refund_from_eoa"
                /\ tx.sender \in Range(funded_eoa)
                /\ tx.to = sender
                /\ tx.gas_limit = 21000
                /\ tx.gas_price = option.max_fee_per_gas
                /\ tx.value >= 0
                /\ \E j \in 1 .. Len(td_log) :
                      /\ td_log[j].eoa = tx.sender
                      /\ td_log[j].outcome = "sent"
                      /\ td_log[j].value = tx.value
                      /\ tx.value + 21000 * option.max_fee_per_gas
                            = td_log[j].balance
                /\ \A k \in 1 .. Len(refund_txs) :
                      refund_txs[k].sender = tx.sender => k = i)
    /\ [][/\ Queried
             => /\ eoa_nonce'[funded_eoa[td_idx]]
                      = chain_nonce[funded_eoa[td_idx]]
                /\ td_remaining' = chain_balance[funded_eoa[td_idx]]
          /\ RefundSent
             => LET tx == refund_txs'[Len(refund_txs')]
                IN /\ tx.sender = funded_eoa[td_idx]
                   /\ tx.nonce = eoa_nonce[tx.sender]
                   /\ tx.value + 21000 * option.max_fee_per_gas
                         = td_remaining
                   /\ mempool' = Append(mempool, tx)]_vars

\* the cleanup is over with two refunds sent, one of them of an EOA whose
\* transaction count on the node was not zero
C40_Witness ==
    /\ phase = "closed"
    /\ Len(refund_txs) = 2
    /\ refund_txs[1].value > 0
    /\ \E i \in 1 .. 2 : refund_txs[i].nonce > 0

====
